---- MODULE Spec2Model ----
(***************************************************************************)
(* A model of the KMRL document ingestion pipeline: the file type          *)
(* detector (utils/file_detector.py) and the document dispatcher           *)
(* (dispatcher.py) with its statistics and the persisted Document table    *)
(* (database/models.py).                                                   *)
(*                                                                         *)
(* The extractor, the classifier and the database are called by the        *)
(* dispatcher; each call either returns or raises.  What a call does for   *)
(* one document is an input of the model (an "env" record), drawn from the *)
(* small sets below.  Python's None is the string "None".                  *)
(***************************************************************************)
EXTENDS Integers, Sequences, FiniteSets, TLC

VARIABLES
    processing_stats,   \* DocumentDispatcher.processing_stats
    documents,          \* the committed rows of the documents table, by id
    call,               \* the last dispatcher call: its arguments, what it returned or
                        \* raised, the statistics and the number of rows before it,
                        \* and the calls made for each document
    handed,             \* documents handed to the dispatcher so far (bounds the run)
    since_reset         \* documents process_file was called for since construction
                        \* or the last reset_stats

vars == <<processing_stats, documents, call, handed, since_reset>>

\* Bounds of the model.
MaxDocs == 2            \* documents handed to the dispatcher in one run
MaxBatch == 2           \* length of one process_batch input list

None == "None"
Unbound == "<unbound>"  \* a Python local that has not been assigned yet

----------------------------------------------------------------------------
(* Python dicts as functions.                                              *)

EmptyDict == [k \in {} |-> 0]

Get(d, k, default) == IF k \in DOMAIN d THEN d[k] ELSE default

\* d[k] += 1 after "if k not in d: d[k] = 0"
Incr(d, k) == IF k \in DOMAIN d THEN [d EXCEPT ![k] = @ + 1] ELSE d @@ (k :> 1)

----------------------------------------------------------------------------
(* utils/file_detector.py                                                  *)

mime_to_type_mapping ==
    ("application/pdf" :> "PDF") @@
    ("application/vnd.openxmlformats-officedocument.wordprocessingml.document" :> "DOCX") @@
    ("application/vnd.openxmlformats-officedocument.spreadsheetml.sheet" :> "XLSX") @@
    ("application/vnd.openxmlformats-officedocument.presentationml.presentation" :> "PPTX") @@
    ("application/msword" :> "DOC") @@
    ("application/vnd.ms-excel" :> "XLS") @@
    ("image/jpeg" :> "IMAGE") @@ ("image/jpg" :> "IMAGE") @@ ("image/png" :> "IMAGE") @@
    ("image/tiff" :> "IMAGE") @@ ("image/bmp" :> "IMAGE") @@ ("image/gif" :> "IMAGE") @@
    ("image/vnd.dwg" :> "DWG") @@ ("application/acad" :> "DWG") @@
    ("application/x-dwg" :> "DWG") @@ ("application/dwg" :> "DWG") @@
    ("image/vnd.dxf" :> "DXF") @@ ("application/dxf" :> "DXF") @@
    ("text/plain" :> "TXT") @@ ("text/csv" :> "CSV") @@
    ("application/zip" :> "ZIP") @@ ("application/x-rar-compressed" :> "RAR")

extension_mapping ==
    (".pdf" :> "PDF") @@ (".docx" :> "DOCX") @@ (".doc" :> "DOC") @@
    (".xlsx" :> "XLSX") @@ (".xls" :> "XLS") @@ (".pptx" :> "PPTX") @@
    (".jpg" :> "IMAGE") @@ (".jpeg" :> "IMAGE") @@ (".png" :> "IMAGE") @@
    (".tiff" :> "IMAGE") @@ (".tif" :> "IMAGE") @@ (".bmp" :> "IMAGE") @@
    (".gif" :> "IMAGE") @@ (".dwg" :> "DWG") @@ (".dxf" :> "DXF") @@
    (".txt" :> "TXT") @@ (".csv" :> "CSV") @@ (".zip" :> "ZIP") @@ (".rar" :> "RAR")

\* str.lower(), on the ASCII letters
UpperToLower ==
    ("A" :> "a") @@ ("B" :> "b") @@ ("C" :> "c") @@ ("D" :> "d") @@ ("E" :> "e") @@
    ("F" :> "f") @@ ("G" :> "g") @@ ("H" :> "h") @@ ("I" :> "i") @@ ("J" :> "j") @@
    ("K" :> "k") @@ ("L" :> "l") @@ ("M" :> "m") @@ ("N" :> "n") @@ ("O" :> "o") @@
    ("P" :> "p") @@ ("Q" :> "q") @@ ("R" :> "r") @@ ("S" :> "s") @@ ("T" :> "t") @@
    ("U" :> "u") @@ ("V" :> "v") @@ ("W" :> "w") @@ ("X" :> "x") @@ ("Y" :> "y") @@
    ("Z" :> "z")

RECURSIVE Lower(_)
Lower(s) ==
    IF Len(s) = 0 THEN ""
    ELSE IF Len(s) = 1 THEN Get(UpperToLower, s, s)
    ELSE Lower(SubSeq(s, 1, Len(s) \div 2)) \o Lower(SubSeq(s, Len(s) \div 2 + 1, Len(s)))

\* sub in s
Contains(s, sub) ==
    \E i \in 1..(Len(s) - Len(sub) + 1) : SubSeq(s, i, i + Len(sub) - 1) = sub

\* s.startswith(prefix)
StartsWith(s, prefix) ==
    Len(prefix) <= Len(s) /\ SubSeq(s, 1, Len(prefix)) = prefix

\* the greatest index of character c in s, 0 when there is none (str.rfind + 1)
LastIndexOf(s, c) ==
    LET hits == {i \in 1..Len(s) : SubSeq(s, i, i) = c}
    IN  IF hits = {} THEN 0 ELSE CHOOSE i \in hits : \A j \in hits : j <= i

\* os.path.basename(filepath), POSIX
basename(filepath) == SubSeq(filepath, LastIndexOf(filepath, "/") + 1, Len(filepath))

\* os.path.splitext(filepath)[1]: from the last dot of the last path component,
\* unless only dots precede it there
splitext_ext(filepath) ==
    LET name == basename(filepath)
        dot == LastIndexOf(name, ".")
    IN  IF dot = 0 \/ \A i \in 1..dot : SubSeq(name, i, i) = "."
        THEN ""
        ELSE SubSeq(name, dot, Len(name))

MagicError == "<magic raises>"   \* magic.from_file raised
DetectError == "<detect raises>" \* the extension fallback raised as well

\* detect_file_type.  magic is what magic.from_file(filepath, mime=True) does for
\* the file: the MIME type it returns, MagicError when it raises, or DetectError
\* when the fallback of lines 101-107, which no handler guards, raises too.
\* raises tells whether the call raised instead of returning the pair.
detect_file_type(filepath, magic) ==
    LET ext == Lower(splitext_ext(filepath))
    IN  IF magic = DetectError
        THEN [raises |-> TRUE, file_type |-> Unbound, mime_type |-> Unbound]
        ELSE IF magic = MagicError
        THEN [raises |-> FALSE,
              file_type |-> Get(extension_mapping, ext, "UNKNOWN"),
              mime_type |-> "application/octet-stream"]
        ELSE LET mime_type == magic
                 file_type ==
                    IF mime_type \in DOMAIN mime_to_type_mapping
                    THEN mime_to_type_mapping[mime_type]
                    ELSE IF ext \in DOMAIN extension_mapping
                    THEN extension_mapping[ext]
                    ELSE IF Contains(Lower(mime_type), "dwg") \/ ext = ".dwg" THEN "DWG"
                    ELSE IF Contains(Lower(mime_type), "dxf") \/ ext = ".dxf" THEN "DXF"
                    ELSE IF StartsWith(mime_type, "image/") THEN "IMAGE"
                    ELSE IF StartsWith(mime_type, "text/") THEN "TXT"
                    ELSE "UNKNOWN"
             IN  [raises |-> FALSE, file_type |-> file_type, mime_type |-> mime_type]

supported_types == {"PDF", "DOCX", "DOC", "IMAGE", "DWG", "DXF", "TXT", "CSV", "XLSX"}

\* is_supported_type with the archive tags of the two mappings let through
is_supported_type_with_archives(file_type) ==
    file_type \in supported_types \cup {"ZIP", "RAR"}

is_supported_type(file_type) == file_type \in supported_types

----------------------------------------------------------------------------
(* classifiers/department_classifier.py.  Scores are kept in tenths (0.5 is *)
(* 5, 0.8 is 8, 0.3 is 3, 1.0 is 10, 0.2 is 2) and the confidence in units   *)
(* of 1/100000, so that the arithmetic of lines 129-189 is exact.            *)

\* the departments, in the iteration order of department_keywords
Departments ==
    <<"ENGINEERING", "PROCUREMENT", "HR", "FINANCE", "SAFETY", "OPERATIONS",
      "LEGAL", "REGULATORY">>

department_keywords ==
    [ENGINEERING |->
        <<"engineering", "technical", "design", "construction", "maintenance",
          "infrastructure", "track", "signal", "electrical", "mechanical",
          "civil", "structural", "rolling stock", "train", "locomotive",
          "bridge", "tunnel", "station", "platform", "overhead", "catenary",
          "dwg", "drawing", "blueprint", "specification", "cad">>,
     PROCUREMENT |->
        <<"procurement", "purchase", "vendor", "supplier", "contract",
          "quotation", "tender", "bid", "invoice", "payment", "order",
          "material", "equipment", "spare parts", "delivery", "supply",
          "cost", "price", "budget", "negotiation", "agreement">>,
     HR |->
        <<"human resource", "hr", "employee", "staff", "personnel",
          "recruitment", "hiring", "training", "policy", "leave",
          "attendance", "payroll", "benefits", "performance",
          "disciplinary", "grievance", "promotion", "transfer",
          "resignation", "termination", "appraisal">>,
     FINANCE |->
        <<"finance", "financial", "accounting", "budget", "expenditure",
          "revenue", "audit", "tax", "billing", "cost", "profit",
          "loss", "balance", "ledger", "transaction", "banking",
          "investment", "loan", "insurance", "claim">>,
     SAFETY |->
        <<"safety", "security", "accident", "incident", "hazard",
          "risk", "emergency", "fire", "evacuation", "first aid",
          "injury", "fatality", "ppe", "personal protective equipment",
          "safety training", "safety drill", "safety audit",
          "safety committee", "safety policy", "safety manual">>,
     OPERATIONS |->
        <<"operations", "operational", "schedule", "timetable",
          "service", "passenger", "ridership", "frequency",
          "delay", "disruption", "performance", "punctuality",
          "control room", "dispatch", "coordination", "monitoring">>,
     LEGAL |->
        <<"legal", "law", "regulation", "compliance", "court",
          "litigation", "agreement", "contract", "clause",
          "terms", "conditions", "liability", "dispute",
          "arbitration", "mediation", "settlement">>,
     REGULATORY |->
        <<"regulatory", "regulation", "compliance", "commissioner",
          "ministry", "government", "authority", "approval",
          "license", "permit", "clearance", "inspection",
          "audit", "report", "submission", "deadline">>]

\* The regular expressions of department_patterns, as sequences of elements: a
\* literal out of ordered alternatives, \s+, \s*, \d+ and \b.
Lit(alts) == [kind |-> "lit", alts |-> alts]
Spaces1 == [kind |-> "s+", alts |-> <<>>]
Spaces0 == [kind |-> "s*", alts |-> <<>>]
Digits1 == [kind |-> "d+", alts |-> <<>>]
WordBoundary == [kind |-> "b", alts |-> <<>>]

\* r'a\s+b'
Phrase(a, b) == <<Lit(<<a>>), Spaces1, Lit(<<b>>)>>

PatternDepartments == <<"ENGINEERING", "PROCUREMENT", "FINANCE", "SAFETY">>

department_patterns ==
    [ENGINEERING |->
        << <<WordBoundary, Lit(<<"dwg", "dxf">>), WordBoundary>>,
           Phrase("drawing", "no"),
           Phrase("technical", "specification"),
           Phrase("design", "document") >>,
     PROCUREMENT |->
        << Phrase("po", "no"),
           Phrase("purchase", "order"),
           Phrase("vendor", "code"),
           Phrase("invoice", "no") >>,
     FINANCE |->
        << <<Lit(<<"₹", "$", "usd", "inr">>)>>,
           <<WordBoundary, Digits1, Lit(<<".">>), Digits1, Spaces0,
             Lit(<<"crore", "lakh", "million">>)>>,
           Phrase("account", "no"),
           Phrase("transaction", "id") >>,
     SAFETY |->
        << Phrase("accident", "report"),
           Phrase("incident", "no"),
           Phrase("safety", "violation") >>]

HintDepartments ==
    <<"ENGINEERING", "PROCUREMENT", "HR", "FINANCE", "SAFETY", "OPERATIONS">>

filename_hints ==
    [ENGINEERING |-> <<"dwg", "dxf", "design", "tech", "drawing">>,
     PROCUREMENT |-> <<"po", "purchase", "vendor", "invoice">>,
     HR |-> <<"hr", "employee", "staff", "personnel">>,
     FINANCE |-> <<"finance", "budget", "cost", "payment">>,
     SAFETY |-> <<"safety", "accident", "incident">>,
     OPERATIONS |-> <<"ops", "operation", "schedule", "service">>]

\* line 169: the filename words of the image bonus
ScanWords == <<"scan", "photo", "img">>

\* the positions from i on at which sub occurs in s
Occurrences(s, sub, i) ==
    {j \in i..(Len(s) - Len(sub) + 1) : SubSeq(s, j, j + Len(sub) - 1) = sub}

Largest(S) == CHOOSE m \in S : \A n \in S : n <= m

Smallest(S) == CHOOSE m \in S : \A n \in S : m <= n

\* str.count(sub) from position i on: occurrences that do not overlap, leftmost
\* first
RECURSIVE CountFrom(_, _, _)
CountFrom(s, sub, i) ==
    LET found == Occurrences(s, sub, i)
    IN  IF found = {} THEN 0
        ELSE 1 + CountFrom(s, sub, Smallest(found) + Len(sub))

Count(s, sub) == CountFrom(s, sub, 1)

CharAt(s, i) == IF i >= 1 /\ i <= Len(s) THEN SubSeq(s, i, i) ELSE ""

IsSpace(ch) == ch \in {" ", "\t", "\n", "\r"}

IsDigit(ch) == ch \in {"0", "1", "2", "3", "4", "5", "6", "7", "8", "9"}

IsWordChar(ch) ==
    \/ IsDigit(ch)
    \/ ch \in {"_", "a", "b", "c", "d", "e", "f", "g", "h", "i", "j", "k", "l", "m",
               "n", "o", "p", "q", "r", "s", "t", "u", "v", "w", "x", "y", "z"}

\* the length of the run of characters of one class that starts at position i
RECURSIVE RunLength(_, _, _)
RunLength(s, i, class) ==
    IF i > Len(s) THEN 0
    ELSE IF (class = "s" /\ IsSpace(CharAt(s, i))) \/ (class = "d" /\ IsDigit(CharAt(s, i)))
         THEN 1 + RunLength(s, i + 1, class)
         ELSE 0

\* re.match of elements k.. of pattern p at position i of s: the position after
\* the match, 0 if there is none.  Alternatives are tried in order and
\* repetitions longest first.
RECURSIVE MatchAt(_, _, _, _)
MatchAt(p, k, s, i) ==
    IF k > Len(p) THEN i
    ELSE IF p[k].kind = "lit"
    THEN LET ok == {j \in DOMAIN p[k].alts :
                       /\ i + Len(p[k].alts[j]) - 1 <= Len(s)
                       /\ SubSeq(s, i, i + Len(p[k].alts[j]) - 1) = p[k].alts[j]
                       /\ MatchAt(p, k + 1, s, i + Len(p[k].alts[j])) # 0}
         IN  IF ok = {} THEN 0
             ELSE MatchAt(p, k + 1, s, i + Len(p[k].alts[Smallest(ok)]))
    ELSE IF p[k].kind = "b"
    THEN IF IsWordChar(CharAt(s, i - 1)) # IsWordChar(CharAt(s, i))
         THEN MatchAt(p, k + 1, s, i)
         ELSE 0
    ELSE LET run == RunLength(s, i, IF p[k].kind = "d+" THEN "d" ELSE "s")
             least == IF p[k].kind = "s*" THEN 0 ELSE 1
             ok == {m \in least..run : MatchAt(p, k + 1, s, i + m) # 0}
         IN  IF ok = {} THEN 0
             ELSE MatchAt(p, k + 1, s, i + Largest(ok))

\* len(re.findall(p, s)) from position i on: matches that do not overlap,
\* leftmost first
RECURSIVE FindAllFrom(_, _, _)
FindAllFrom(p, s, i) ==
    LET found == {j \in i..Len(s) : MatchAt(p, 1, s, j) # 0}
    IN  IF found = {} THEN 0
        ELSE 1 + FindAllFrom(p, s, MatchAt(p, 1, s, Smallest(found)))

FindAll(p, s) == FindAllFrom(p, s, 1)

KeywordWeight == 5
PatternWeight == 8
HintWeight == 3
CadBonus == 10
ImageBonus == 2
TextLengthNorm == 1000
ConfidenceOne == 100000

\* dept_scores: a defaultdict(float); keys holds its keys in insertion order
EmptyScores == [keys |-> <<>>, val |-> EmptyDict]

\* dept_scores[dept] += amount
AddScore(scores, dept, amount) ==
    [keys |-> IF dept \in DOMAIN scores.val THEN scores.keys
              ELSE Append(scores.keys, dept),
     val |-> (dept :> (Get(scores.val, dept, 0) + amount)) @@ scores.val]

Evidence(dept, kind, detail) == [department |-> dept, kind |-> kind, detail |-> detail]

\* lines 122-126: the keywords of a list that occur in the text, with their counts
RECURSIVE matched_keywords(_, _, _)
matched_keywords(keywords, text_lower, k) ==
    IF k > Len(keywords) THEN <<>>
    ELSE (IF Count(text_lower, keywords[k]) > 0
          THEN << <<keywords[k], Count(text_lower, keywords[k])>> >>
          ELSE <<>>) \o matched_keywords(keywords, text_lower, k + 1)

\* lines 137-141: the patterns of a list that match in the text, by their
\* position in the list, with their numbers of matches
RECURSIVE matched_patterns(_, _, _)
matched_patterns(patterns, text_lower, k) ==
    IF k > Len(patterns) THEN <<>>
    ELSE (IF FindAll(patterns[k], text_lower) > 0
          THEN << <<k, FindAll(patterns[k], text_lower)>> >>
          ELSE <<>>) \o matched_patterns(patterns, text_lower, k + 1)

\* keyword_score and pattern_score: the sum of the counts
RECURSIVE SumCounts(_)
SumCounts(matched) ==
    IF matched = <<>> THEN 0 ELSE Head(matched)[2] + SumCounts(Tail(matched))

\* the verdict of lines 103-108
NoContentVerdict ==
    [department |-> "UNKNOWN", confidence |-> 0, scores |-> EmptyScores,
     reasoning |-> <<Evidence(None, "No text content to analyze", <<>>)>>]

\* the verdict of lines 175-180
NoIndicatorVerdict ==
    [department |-> "GENERAL", confidence |-> 0, scores |-> EmptyScores,
     reasoning |-> <<Evidence(None, "No department-specific indicators found", <<>>)>>]

\* line 183: max(dept_scores.items(), key=...) returns the first item, in
\* insertion order, whose score is the highest
top_dept(scores) ==
    scores.keys[Smallest({k \in DOMAIN scores.keys :
                            \A j \in DOMAIN scores.keys :
                                scores.val[scores.keys[j]] <= scores.val[scores.keys[k]]})]

Min(a, b) == IF a <= b THEN a ELSE b

\* confidence_of without the cap of line 189
confidence_uncapped(max_score, text) == max_score * Min(Len(text), TextLengthNorm)

\* lines 188-189
confidence_of(max_score, text) ==
    Min(max_score * Min(Len(text), TextLengthNorm), ConfidenceOne)

\* ClassifyContext without the test of line 102: an empty text is scored like
\* any other
ClassifyContext_unguarded(text, filename, meta_data) ==
    [text |-> text, text_lower |-> Lower(text), filename_lower |-> Lower(filename),
     meta_data |-> meta_data, dept_scores |-> EmptyScores, reasoning |-> <<>>,
     at |-> "keywords", i |-> 1, j |-> 1, verdict |-> NoContentVerdict]

\* the locals of classify; at is the loop control is in, i and j the positions
\* of the loops
ClassifyContext(text, filename, meta_data) ==
    [text |-> text, text_lower |-> Lower(text), filename_lower |-> Lower(filename),
     meta_data |-> meta_data, dept_scores |-> EmptyScores, reasoning |-> <<>>,
     at |-> IF text = "" THEN "no_text" ELSE "keywords", i |-> 1, j |-> 1,
     verdict |-> NoContentVerdict]

\* keyword_scoring without the test of line 128: a department none of whose
\* keywords occurs gets an entry all the same
keyword_scoring_unconditional(c) ==
    IF c.i > Len(Departments) THEN [c EXCEPT !.at = "patterns", !.i = 1]
    ELSE LET dept == Departments[c.i]
             matched == matched_keywords(department_keywords[dept], c.text_lower, 1)
         IN  [c EXCEPT !.i = @ + 1,
                       !.dept_scores = AddScore(@, dept, SumCounts(matched) * KeywordWeight),
                       !.reasoning = Append(@, Evidence(dept, "Keywords", matched))]

\* lines 118-130: one department of the keyword loop
keyword_scoring(c) ==
    IF c.i > Len(Departments) THEN [c EXCEPT !.at = "patterns", !.i = 1]
    ELSE LET dept == Departments[c.i]
             matched == matched_keywords(department_keywords[dept], c.text_lower, 1)
         IN  IF SumCounts(matched) > 0
             THEN [c EXCEPT !.i = @ + 1,
                            !.dept_scores = AddScore(@, dept, SumCounts(matched) * KeywordWeight),
                            !.reasoning = Append(@, Evidence(dept, "Keywords", matched))]
             ELSE [c EXCEPT !.i = @ + 1]

\* pattern_scoring with the weight of the keywords
pattern_scoring_keyword_weight(c) ==
    IF c.i > Len(PatternDepartments) THEN [c EXCEPT !.at = "filename", !.i = 1, !.j = 1]
    ELSE LET dept == PatternDepartments[c.i]
             matched == matched_patterns(department_patterns[dept], c.text_lower, 1)
         IN  IF SumCounts(matched) > 0
             THEN [c EXCEPT !.i = @ + 1,
                            !.dept_scores = AddScore(@, dept, SumCounts(matched) * KeywordWeight),
                            !.reasoning = Append(@, Evidence(dept, "Patterns", matched))]
             ELSE [c EXCEPT !.i = @ + 1]

\* lines 133-145: one department of the pattern loop
pattern_scoring(c) ==
    IF c.i > Len(PatternDepartments) THEN [c EXCEPT !.at = "filename", !.i = 1, !.j = 1]
    ELSE LET dept == PatternDepartments[c.i]
             matched == matched_patterns(department_patterns[dept], c.text_lower, 1)
         IN  IF SumCounts(matched) > 0
             THEN [c EXCEPT !.i = @ + 1,
                            !.dept_scores = AddScore(@, dept, SumCounts(matched) * PatternWeight),
                            !.reasoning = Append(@, Evidence(dept, "Patterns", matched))]
             ELSE [c EXCEPT !.i = @ + 1]

\* lines 157-161: one hint of one department of the filename loop
filename_scoring(c) ==
    IF c.i > Len(HintDepartments) THEN [c EXCEPT !.at = "file_type"]
    ELSE IF c.j > Len(filename_hints[HintDepartments[c.i]])
    THEN [c EXCEPT !.i = @ + 1, !.j = 1]
    ELSE LET dept == HintDepartments[c.i]
             hint == filename_hints[dept][c.j]
         IN  IF Contains(c.filename_lower, hint)
             THEN [c EXCEPT !.j = @ + 1,
                            !.dept_scores = AddScore(@, dept, HintWeight),
                            !.reasoning = Append(@, Evidence(dept, "Filename hint", hint))]
             ELSE [c EXCEPT !.j = @ + 1]

\* lines 164-171: the bonus of the file type.  The image bonus appends nothing
\* to reasoning.
file_type_hints(c) ==
    LET file_type == Get(c.meta_data, "file_type", "")
    IN  IF DOMAIN c.meta_data = {} THEN [c EXCEPT !.at = "verdict"]
        ELSE IF file_type \in {"DWG", "DXF"}
        THEN [c EXCEPT !.at = "verdict",
                       !.dept_scores = AddScore(@, "ENGINEERING", CadBonus),
                       !.reasoning = Append(@, Evidence("ENGINEERING", "CAD file type", file_type))]
        ELSE IF file_type = "IMAGE"
                /\ \E w \in DOMAIN ScanWords : Contains(c.filename_lower, ScanWords[w])
        THEN [c EXCEPT !.at = "verdict",
                       !.dept_scores = AddScore(@, "OPERATIONS", ImageBonus)]
        ELSE [c EXCEPT !.at = "verdict"]

\* lines 173-196
final_classification(c) ==
    IF c.dept_scores.keys = <<>>
    THEN [c EXCEPT !.at = "returned", !.verdict = NoIndicatorVerdict]
    ELSE [c EXCEPT !.at = "returned",
                   !.verdict = [department |-> top_dept(c.dept_scores),
                                confidence |-> confidence_of(
                                    c.dept_scores.val[top_dept(c.dept_scores)], c.text),
                                scores |-> c.dept_scores,
                                reasoning |-> c.reasoning]]

classify_step(c) ==
    CASE c.at = "no_text" -> [c EXCEPT !.at = "returned", !.verdict = NoContentVerdict]
      [] c.at = "keywords" -> keyword_scoring(c)
      [] c.at = "patterns" -> pattern_scoring(c)
      [] c.at = "filename" -> filename_scoring(c)
      [] c.at = "file_type" -> file_type_hints(c)
      [] c.at = "verdict" -> final_classification(c)

RECURSIVE classify_run(_)
classify_run(c) == IF c.at = "returned" THEN c ELSE classify_run(classify_step(c))

\* DepartmentClassifier.classify
classify(text, filename, meta_data) ==
    classify_run(ClassifyContext(text, filename, meta_data)).verdict

----------------------------------------------------------------------------
(* extractors/extractors.py.  What the libraries under a strategy do for a *)
(* file (pdfplumber, pdf2image, pytesseract, PIL, python-docx, ezdxf,       *)
(* pandas, open) is an input, the "engine" record.  caught lists the        *)
(* exceptions the strategy's handlers caught, in order; it is not part of   *)
(* the outcome the caller sees.                                            *)

\* sep.join(parts)
RECURSIVE Join(_, _)
Join(parts, sep) ==
    IF parts = <<>> THEN ""
    ELSE IF Len(parts) = 1 THEN parts[1]
    ELSE parts[1] \o sep \o Join(Tail(parts), sep)

RECURSIVE StripLeft(_)
StripLeft(s) ==
    IF Len(s) > 0 /\ IsSpace(SubSeq(s, 1, 1)) THEN StripLeft(SubSeq(s, 2, Len(s))) ELSE s

RECURSIVE StripRight(_)
StripRight(s) ==
    IF Len(s) > 0 /\ IsSpace(SubSeq(s, Len(s), Len(s)))
    THEN StripRight(SubSeq(s, 1, Len(s) - 1))
    ELSE s

\* s.strip()
Strip(s) == StripRight(StripLeft(s))

\* s.endswith(suffix)
EndsWith(s, suffix) ==
    Len(suffix) <= Len(s) /\ SubSeq(s, Len(s) - Len(suffix) + 1, Len(s)) = suffix

\* the result dict of a strategy
Outcome(text, meta_data) == [text |-> text, meta_data |-> meta_data, caught |-> <<>>]

\* result['meta_data']['error'] = str(e) in the handler of the strategy's try
WithError(result, fault, message) ==
    [result EXCEPT !.meta_data = ("error" :> message) @@ @,
                   !.caught = Append(@, fault)]

MinDirectLength == 30

PageError == "<extract_text raises>"

\* lines 24-37: the locals of PDFExtractor.extract once the file is open
PdfContext(engine) ==
    [pages |-> engine.pages, i |-> 1, all_text |-> <<>>, tables_count |-> 0,
     at |-> "pages",
     result |-> Outcome("", [pages |-> Len(engine.pages), extraction_method |-> <<>>,
                             tables_found |-> 0])]

\* lines 39-69: one page of the loop, or the statements after it
pdf_page(c) ==
    IF c.i > Len(c.pages)
    THEN [c EXCEPT !.at = "returned",
                   !.result.text = Join(c.all_text, "\n\n"),
                   !.result.meta_data.tables_found = c.tables_count]
    ELSE IF c.pages[c.i].text = PageError
    THEN [c EXCEPT !.at = "returned", !.result = WithError(@, "extract_text", "page unreadable")]
    ELSE LET page == c.pages[c.i]
             direct == /\ page.text # None
                       /\ page.text # ""
                       /\ Len(Strip(page.text)) > MinDirectLength
             ocr == ~direct /\ ~page.ocr.raises
             tables == IF page.tables.raises THEN <<>> ELSE page.tables.tables
         IN  [c EXCEPT
                !.i = @ + 1,
                !.all_text = @ \o (IF direct THEN <<page.text>>
                                   ELSE IF ocr THEN page.ocr.texts ELSE <<>>)
                               \o [k \in DOMAIN tables |-> "TABLE:\n" \o tables[k]],
                !.result.meta_data.extraction_method =
                    @ \o (IF direct THEN << <<c.i, "direct">> >>
                          ELSE IF ocr THEN [k \in DOMAIN page.ocr.texts |-> <<c.i, "ocr">>]
                          ELSE <<>>),
                !.tables_count = @ + Len(tables),
                !.result.caught = @ \o (IF ~direct /\ page.ocr.raises THEN <<"ocr">> ELSE <<>>)
                                    \o (IF page.tables.raises THEN <<"tables">> ELSE <<>>)]

RECURSIVE pdf_pages(_)
pdf_pages(c) == IF c.at = "returned" THEN c ELSE pdf_pages(pdf_page(c))

\* PDFExtractor.extract, lines 23-74
PDFExtractor_extract(filepath, engine) ==
    IF engine.open = "raises"
    THEN WithError(Outcome("", [pages |-> 0, extraction_method |-> <<>>, tables_found |-> 0]),
                   "open", "cannot open file")
    ELSE pdf_pages(PdfContext(engine)).result

\* ImageExtractor.extract, lines 79-99
ImageExtractor_extract(filepath, engine) ==
    IF engine.open = "raises"
    THEN WithError(Outcome("", [ocr_method |-> "tesseract", image_size |-> None]),
                   "open", "cannot open file")
    ELSE IF engine.ocr.raises
    THEN WithError(Outcome("", [ocr_method |-> "tesseract", image_size |-> engine.size]),
                   "ocr", "tesseract failed")
    ELSE Outcome(engine.ocr.text, [ocr_method |-> "tesseract", image_size |-> engine.size])

\* DOCXExtractor.extract, lines 104-138
DOCXExtractor_extract(filepath, engine) ==
    IF engine.open = "raises"
    THEN WithError(Outcome("", [paragraphs |-> 0, tables |-> 0]), "open", "cannot open file")
    ELSE LET filled == SelectSeq(engine.paragraphs, LAMBDA p : Strip(p) # "")
         IN  Outcome(Join(filled \o [k \in DOMAIN engine.tables |->
                                         "TABLE:\n" \o engine.tables[k]], "\n\n"),
                     [paragraphs |-> Len(filled), tables |-> Len(engine.tables)])

\* lines 164-174: the texts of the entities, in order
RECURSIVE entity_texts(_)
entity_texts(entities) ==
    IF entities = <<>> THEN <<>>
    ELSE (IF Head(entities).dxftype \in {"TEXT", "MTEXT"}
          THEN <<Head(entities).text>>
          ELSE IF Head(entities).dxftype = "DIMENSION" /\ Head(entities).text # Unbound
          THEN <<Head(entities).text>>
          ELSE <<>>) \o entity_texts(Tail(entities))

\* CADExtractor.extract, lines 143-184.  ezdxf is asked only for a path that ends
\* in .dxf; for any other path the try block does nothing.
CADExtractor_extract(filepath, engine) ==
    IF ~EndsWith(Lower(filepath), ".dxf")
    THEN Outcome("", [entities |-> 0, text_entities |-> 0, layers |-> <<>>])
    ELSE IF engine.open = "raises"
    THEN [WithError(Outcome("", [entities |-> 0, text_entities |-> 0, layers |-> <<>>]),
                    "open", "cannot open file")
            EXCEPT !.text = "CAD file detected: " \o basename(filepath)]
    ELSE Outcome(Join(entity_texts(engine.entities), "\n"),
                 [entities |-> Len(engine.entities),
                  text_entities |-> Len(entity_texts(engine.entities)),
                  layers |-> engine.layers])

\* the encodings of lines 201 and 243
Encodings == <<"utf-8", "latin-1", "cp1252">>

\* CSVExtractor.extract, lines 189-227.  engine.decodes is the position of the
\* first encoding the file decodes with, 0 if there is none.
CSVExtractor_extract(filepath, engine) ==
    IF engine.open = "raises"
    THEN WithError(Outcome("", [rows |-> 0, columns |-> 0, encoding |-> "utf-8"]),
                   "open", "cannot open file")
    ELSE IF engine.decodes = 0
    THEN WithError(Outcome("", [rows |-> 0, columns |-> 0, encoding |-> "utf-8"]),
                   "decode", "Could not decode CSV with any common encoding")
    ELSE Outcome(Join(<<"CSV Table with " \o ToString(engine.rows) \o " rows and "
                            \o ToString(Len(engine.columns)) \o " columns:",
                        "Columns: " \o Join(engine.columns, ", "),
                        "Data preview:",
                        engine.preview>>, "\n\n"),
                 [rows |-> engine.rows, columns |-> Len(engine.columns),
                  encoding |-> Encodings[engine.decodes]])

\* TXTExtractor.extract, lines 232-260
TXTExtractor_extract(filepath, engine) ==
    IF engine.open = "raises"
    THEN WithError(Outcome("", [encoding |-> "utf-8", lines |-> 0]),
                   "open", "cannot open file")
    ELSE IF engine.decodes = 0
    THEN WithError(Outcome("", [encoding |-> "utf-8", lines |-> 0]),
                   "decode", "Could not decode text file with any common encoding")
    ELSE Outcome(engine.text, [encoding |-> Encodings[engine.decodes],
                               lines |-> Count(engine.text, "\n") + 1])

\* ExtractorFactory.extractors, lines 265-275
extractors ==
    [PDF |-> "PDFExtractor", IMAGE |-> "ImageExtractor", DOCX |-> "DOCXExtractor",
     DOC |-> "DOCXExtractor", DXF |-> "CADExtractor", DWG |-> "CADExtractor",
     CSV |-> "CSVExtractor", TXT |-> "TXTExtractor", XLSX |-> "CSVExtractor"]

\* lines 79-80 of dispatcher.py: ExtractorFactory.get_extractor(file_type), which
\* raises ValueError for a tag without a strategy, then extract(filepath)
get_extractor_and_extract(file_type, filepath, engine) ==
    IF file_type \notin DOMAIN extractors
    THEN [raises |-> TRUE, result |-> Outcome("", EmptyDict)]
    ELSE [raises |-> FALSE,
          result |-> CASE extractors[file_type] = "PDFExtractor" ->
                              PDFExtractor_extract(filepath, engine)
                       [] extractors[file_type] = "ImageExtractor" ->
                              ImageExtractor_extract(filepath, engine)
                       [] extractors[file_type] = "DOCXExtractor" ->
                              DOCXExtractor_extract(filepath, engine)
                       [] extractors[file_type] = "CADExtractor" ->
                              CADExtractor_extract(filepath, engine)
                       [] extractors[file_type] = "CSVExtractor" ->
                              CSVExtractor_extract(filepath, engine)
                       [] extractors[file_type] = "TXTExtractor" ->
                              TXTExtractor_extract(filepath, engine)]

----------------------------------------------------------------------------
(* dispatcher.py: the statistics                                           *)

\* the processing_stats of __init__ and of reset_stats
InitialStats ==
    [total_processed |-> 0, successful |-> 0, failed |-> 0,
     by_channel |-> EmptyDict, by_type |-> EmptyDict, by_department |-> EmptyDict]

\* update_stats without lines 206-209: the type of the document is not counted
update_stats_without_type(stats, channel, file_type, department, success) ==
    LET counted == IF success
                   THEN [stats EXCEPT !.successful = @ + 1]
                   ELSE [stats EXCEPT !.failed = @ + 1]
    IN  [counted EXCEPT !.by_channel = Incr(@, channel),
                        !.by_department = Incr(@, department)]

update_stats(stats, channel, file_type, department, success) ==
    LET counted == IF success
                   THEN [stats EXCEPT !.successful = @ + 1]
                   ELSE [stats EXCEPT !.failed = @ + 1]
    IN  [counted EXCEPT !.by_channel = Incr(@, channel),
                        !.by_type = Incr(@, file_type),
                        !.by_department = Incr(@, department)]

----------------------------------------------------------------------------
(* dispatcher.py: process_file                                             *)

NoId == 0   \* result['document_id'] is None; the table's ids start at 1

\* The result dict of process_file.  department stays None unless line 135 sets it.
NewResult(filepath) ==
    [filepath |-> filepath, status |-> "PROCESSING", document_id |-> NoId,
     error |-> None, processing_steps |-> <<>>, department |-> None]

\* The row process_file inserts (lines 58-66), with the columns the dispatcher
\* writes afterwards.
NewDocument(file_type, mime_type, channel) ==
    [file_type |-> file_type, mime_type |-> mime_type, channel |-> channel,
     status |-> "PROCESSING", department |-> None, extracted_text |-> None,
     error_message |-> None]

\* The state of one process_file call between its steps: the dispatcher's
\* statistics, the table, the locals of the call, and where control goes next
\* (at): to a step, to the top-level handler with the message of the fault, or out
\* of the call by a return ("returned") or by an exception ("raised").  trace
\* lists, for the properties, the calls made so far in order, a call that raised
\* marked with "!".
Context(stats, docs, filepath, meta_data, env) ==
    [stats |-> stats, documents |-> docs, result |-> NewResult(filepath),
     filepath |-> filepath, meta_data |-> meta_data, env |-> env,
     file_type |-> Unbound, mime_type |-> Unbound, extracted_text |-> Unbound,
     department |-> Unbound, at |-> "detect", fault |-> None, raised |-> None,
     trace |-> <<>>, classifier_calls |-> <<>>]

\* Lines 46-53: step 1 and the rejection of unsupported types.
detect_type(c) ==
    LET detected == detect_file_type(c.filepath, c.env.magic)
    IN  IF detected.raises
        THEN [c EXCEPT !.at = "handler", !.fault = "type detection failed",
                       !.trace = Append(@, "detect_file_type!")]
        ELSE LET d == [c EXCEPT !.file_type = detected.file_type,
                                !.mime_type = detected.mime_type,
                                !.trace = Append(@, "detect_file_type"),
                                !.result.processing_steps =
                                    Append(@, <<"Detected file type", detected.file_type,
                                                detected.mime_type>>)]
             IN  IF ~is_supported_type(detected.file_type)
                 THEN [d EXCEPT !.at = "returned",
                                !.result.status = "UNSUPPORTED",
                                !.result.error = "File type " \o detected.file_type
                                                 \o " is not supported"]
                 ELSE [d EXCEPT !.at = "create"]

\* Lines 55-75: step 2.
create_record(c) ==
    IF c.env.session = "raises"
    THEN [c EXCEPT !.at = "handler", !.fault = "database unavailable",
                   !.trace = Append(@, "get_database_session!")]
    ELSE IF c.env.create = "raises"
    THEN [c EXCEPT !.at = "handler", !.fault = "insert failed",
                   !.trace = @ \o <<"get_database_session", "create_commit!", "rollback">>]
    ELSE [c EXCEPT !.at = "extract",
                   !.documents = Append(@, NewDocument(c.file_type, c.mime_type,
                                            Get(c.meta_data, "channel", "UNKNOWN"))),
                   !.result.document_id = Len(c.documents) + 1,
                   !.result.processing_steps = Append(@, <<"Created database record">>),
                   !.trace = @ \o <<"get_database_session", "create_commit">>]

\* Lines 91-101: the handler of a fault raised by the extractor.  Its own commit
\* and close are inside the top-level try.
extraction_failed(c) ==
    LET id == c.result.document_id
        error == "Text extraction failed: " \o c.env.extract.error
        failed == [c EXCEPT !.result.status = "EXTRACTION_FAILED",
                            !.result.error = error,
                            !.trace = Append(@, "extract!")]
        committed == [failed EXCEPT !.documents[id].status = "ERROR",
                                    !.documents[id].error_message = error]
    IN  IF c.env.extract_update = "commit_raises"
        THEN [failed EXCEPT !.at = "handler", !.fault = "error update failed",
                            !.trace = Append(@, "error_commit!")]
        ELSE IF c.env.extract_update = "close_raises"
        THEN [committed EXCEPT !.at = "handler", !.fault = "session close failed",
                               !.trace = @ \o <<"error_commit", "error_close!">>]
        ELSE [committed EXCEPT !.at = "returned",
                               !.trace = @ \o <<"error_commit", "error_close">>]

\* Lines 77-101: step 3.
extract_text(c) ==
    IF c.env.extract.raises
    THEN extraction_failed(c)
    ELSE LET steps == Append(c.result.processing_steps, <<"Extracted">>)
         IN  [c EXCEPT !.at = "classify",
                       !.extracted_text = c.env.extract.text,
                       !.trace = Append(@, "extract"),
                       !.result.processing_steps =
                           IF c.env.extract.error # None
                           THEN Append(steps, <<"Extraction warning", c.env.extract.error>>)
                           ELSE steps]

\* Line 107: {'file_type': file_type, **meta_data}.  The keys of meta_data come
\* last, so a file_type key of meta_data replaces the resolved one.
metadata_view(file_type, meta_data) == meta_data @@ ("file_type" :> file_type)

\* Lines 103-115: step 4.  classify returns UNKNOWN for an empty text (lines
\* 102-108 of department_classifier.py) before it does anything that could raise.
\* classifier_calls lists, for the properties, the meta_data argument of the call.
classify_document(c) ==
    IF c.extracted_text # "" /\ c.env.classify = "raises"
    THEN [c EXCEPT !.at = "handler", !.fault = "classification failed",
                   !.trace = Append(@, "classify!"),
                   !.classifier_calls =
                       Append(@, [meta_data |-> metadata_view(c.file_type, c.meta_data)])]
    ELSE LET department == IF c.extracted_text = "" THEN "UNKNOWN" ELSE c.env.classify
         IN  [c EXCEPT !.at = "finalize",
                       !.department = department,
                       !.trace = Append(@, "classify"),
                       !.classifier_calls =
                           Append(@, [meta_data |-> metadata_view(c.file_type, c.meta_data)]),
                       !.result.processing_steps =
                           Append(@, <<"Classified as", department>>)]

\* Lines 117-139: step 5 and the success bookkeeping.
finalize_document(c) ==
    LET id == c.result.document_id
        committed == [c EXCEPT !.documents[id].extracted_text = c.extracted_text,
                               !.documents[id].department = c.department,
                               !.documents[id].status = "PROCESSED"]
    IN  IF c.env.final = "commit_raises"
        THEN [c EXCEPT !.at = "handler", !.fault = "final commit failed",
                       !.trace = Append(@, "final_commit!")]
        ELSE IF c.env.final = "close_raises"
        THEN [committed EXCEPT !.at = "handler", !.fault = "session close failed",
                               !.trace = @ \o <<"final_commit", "final_close!">>]
        ELSE [committed EXCEPT
                 !.at = "returned",
                 !.result.status = "SUCCESS",
                 !.result.department = c.department,
                 !.result.processing_steps =
                     Append(@, <<"Processing completed successfully">>),
                 !.stats = update_stats(@, Get(c.meta_data, "channel", "UNKNOWN"),
                                        c.file_type, c.department, TRUE),
                 !.trace = @ \o <<"final_commit", "final_close", "update_stats">>]

\* top_level_handler without the handler of lines 156-157: a fault of the recovery
\* update escapes the call
top_level_handler_escalating(c) ==
    LET id == c.result.document_id
        failed == [c EXCEPT !.result.status = "FAILED",
                            !.result.error = "Processing failed: " \o c.fault,
                            !.result.processing_steps = Append(@, <<"Error", c.fault>>)]
    IN  IF id # NoId /\ c.env.recovery # "ok"
        THEN [failed EXCEPT !.at = "raised", !.raised = "OperationalError",
                            !.trace = Append(@, "recovery_update!")]
        ELSE IF c.file_type = Unbound
        THEN [failed EXCEPT !.at = "raised", !.raised = "UnboundLocalError",
                            !.trace = Append(@, "update_stats!")]
        ELSE [failed EXCEPT
                 !.at = "returned",
                 !.documents = IF id = NoId THEN @
                               ELSE [@ EXCEPT ![id].status = "ERROR",
                                              ![id].error_message = c.fault],
                 !.stats = update_stats(@, Get(c.meta_data, "channel", "UNKNOWN"),
                                        c.file_type, "UNKNOWN", FALSE),
                 !.trace = IF id = NoId THEN Append(@, "update_stats")
                           ELSE @ \o <<"recovery_update", "update_stats">>]

\* Lines 141-160: the top-level handler.  The recovery update is guarded by its
\* own handler; update_stats is not, and it reads file_type, which is unbound when
\* detect_file_type itself raised.
top_level_handler(c) ==
    LET id == c.result.document_id
        failed == [c EXCEPT !.result.status = "FAILED",
                            !.result.error = "Processing failed: " \o c.fault,
                            !.result.processing_steps = Append(@, <<"Error", c.fault>>)]
        recovered ==
            IF id = NoId THEN failed
            ELSE IF c.env.recovery = "ok"
            THEN [failed EXCEPT !.documents[id].status = "ERROR",
                                !.documents[id].error_message = c.fault,
                                !.trace = Append(@, "recovery_update")]
            ELSE [failed EXCEPT !.trace = Append(@, "recovery_update!")]
    IN  IF c.file_type = Unbound
        THEN [recovered EXCEPT !.at = "raised", !.raised = "UnboundLocalError",
                               !.trace = Append(@, "update_stats!")]
        ELSE [recovered EXCEPT
                 !.at = "returned",
                 !.stats = update_stats(@, Get(c.meta_data, "channel", "UNKNOWN"),
                                        c.file_type, "UNKNOWN", FALSE),
                 !.trace = Append(@, "update_stats")]

\* process_step without the assignment of line 134: a document that completes
\* keeps the status its result was created with
process_step_status_kept(c) ==
    CASE c.at = "detect" -> detect_type(c)
      [] c.at = "create" -> create_record(c)
      [] c.at = "extract" -> extract_text(c)
      [] c.at = "classify" -> classify_document(c)
      [] c.at = "finalize" -> [finalize_document(c) EXCEPT !.result.status = c.result.status]
      [] c.at = "handler" -> top_level_handler(c)

\* process_step without the return of line 101: after the handler of an
\* extraction fault control falls through to step 4
process_step_fall_through(c) ==
    CASE c.at = "detect" -> detect_type(c)
      [] c.at = "create" -> create_record(c)
      [] c.at = "extract" ->
             [extract_text(c) EXCEPT !.at = IF @ = "returned" THEN "classify" ELSE @,
                                     !.extracted_text = c.env.extract.text]
      [] c.at = "classify" -> classify_document(c)
      [] c.at = "finalize" -> finalize_document(c)
      [] c.at = "handler" -> top_level_handler(c)

\* One step of process_file: the code control is at.
process_step(c) ==
    CASE c.at = "detect" -> detect_type(c)
      [] c.at = "create" -> create_record(c)
      [] c.at = "extract" -> extract_text(c)
      [] c.at = "classify" -> classify_document(c)
      [] c.at = "finalize" -> finalize_document(c)
      [] c.at = "handler" -> top_level_handler(c)

\* The steps from c on, until control leaves the call.
RECURSIVE run_steps(_)
run_steps(c) ==
    IF c.at \in {"returned", "raised"} THEN c ELSE run_steps(process_step(c))

\* Lines 32-162.  The value is the context the call ends in.
process_file(stats, docs, filepath, meta_data, env) ==
    run_steps(Context(stats, docs, filepath, meta_data, env))

----------------------------------------------------------------------------
(* dispatcher.py: process_batch                                            *)

\* The state of one process_batch call: the dispatcher's statistics, the table,
\* the arguments, the results list, and how the call ended (at): still in the loop,
\* by a return or by an exception.  envs and traces are per document, as for
\* process_file.
BatchContext(stats, docs, files, envs) ==
    [stats |-> stats, documents |-> docs, files |-> files, envs |-> envs,
     results |-> <<>>, at |-> "loop", raised |-> None, traces |-> <<>>]

\* batch_step with results.insert(0, result) for results.append(result)
batch_step_prepending(b) ==
    IF Len(b.results) = Len(b.files)
    THEN [b EXCEPT !.at = "returned", !.stats.total_processed = @ + Len(b.files)]
    ELSE LET file_info == b.files[Len(b.results) + 1]
             o == process_file(b.stats, b.documents, file_info.filepath,
                               Get(file_info, "meta_data", EmptyDict),
                               b.envs[Len(b.results) + 1])
         IN  [b EXCEPT !.stats = o.stats,
                       !.documents = o.documents,
                       !.traces = Append(@, o.trace),
                       !.results = IF o.raised = None THEN <<o.result>> \o @ ELSE @,
                       !.at = IF o.raised = None THEN "loop" ELSE "raised",
                       !.raised = o.raised]

\* Lines 173-188: one iteration of the loop, for item Len(results) + 1, or the
\* statement after the loop.  An exception that escapes process_file escapes
\* process_batch: nothing in the loop catches it.
batch_step(b) ==
    IF Len(b.results) = Len(b.files)
    THEN [b EXCEPT !.at = "returned", !.stats.total_processed = @ + Len(b.files)]
    ELSE LET file_info == b.files[Len(b.results) + 1]
             o == process_file(b.stats, b.documents, file_info.filepath,
                               Get(file_info, "meta_data", EmptyDict),
                               b.envs[Len(b.results) + 1])
         IN  [b EXCEPT !.stats = o.stats,
                       !.documents = o.documents,
                       !.traces = Append(@, o.trace),
                       !.results = IF o.raised = None THEN Append(@, o.result) ELSE @,
                       !.at = IF o.raised = None THEN "loop" ELSE "raised",
                       !.raised = o.raised]

RECURSIVE batch_loop(_)
batch_loop(b) == IF b.at = "loop" THEN batch_loop(batch_step(b)) ELSE b

\* Lines 164-190.  The value is the context the call ends in.
process_batch(stats, docs, files, envs) ==
    batch_loop(BatchContext(stats, docs, files, envs))

----------------------------------------------------------------------------
(* The inputs: files, metadata and what the collaborators do.              *)

\* The files of the model and what binary inspection does for each of them.
MagicOutcomes ==
    ("/inbox/po_12345.txt" :> {"text/plain"}) @@
    ("/inbox/Plan.DWG" :> {MagicError}) @@
    ("/inbox/archive.zip" :> {"application/zip"}) @@
    ("/inbox/blob.bin" :> {"application/octet-stream", DetectError})

FilePaths == DOMAIN MagicOutcomes

\* The file whose processing the model lets fault at every call; the other files
\* are processed with every call succeeding.
FaultyPath == "/inbox/po_12345.txt"

\* file_info dicts of process_batch: meta_data is optional (line 175), and when
\* given it names the channel as a channel worker does.  process_file is called
\* with the same files, and with an empty meta_data for a file_info without one.
FileInfos ==
    {[filepath |-> FaultyPath],
     [filepath |-> FaultyPath, meta_data |-> ("channel" :> "EMAIL")],
     [filepath |-> "/inbox/Plan.DWG"],
     [filepath |-> "/inbox/archive.zip", meta_data |-> ("channel" :> "EMAIL")],
     [filepath |-> "/inbox/blob.bin"]}

\* What extractor.extract does: return a text, return a degraded outcome (an
\* empty text with an error note), or raise.
ExtractedText == [raises |-> FALSE, text |-> "purchase order from vendor", error |-> None]
ExtractionOutcomes ==
    {ExtractedText,
     [raises |-> FALSE, text |-> "", error |-> "engine failed"],
     [raises |-> TRUE, text |-> "", error |-> "extractor crashed"]}

\* every call of process_file succeeds
FaultFree(magic) ==
    [magic |-> magic, session |-> "ok", create |-> "ok", extract |-> ExtractedText,
     extract_update |-> "ok", classify |-> "PROCUREMENT", final |-> "ok",
     recovery |-> "ok"]

\* classify: the department it answers with for the text of the model, or a fault
AllEnvs(magic) ==
    [magic : {magic},
     session : {"ok", "raises"},
     create : {"ok", "raises"},
     extract : ExtractionOutcomes,
     extract_update : {"ok", "commit_raises", "close_raises"},
     classify : {"PROCUREMENT", "raises"},
     final : {"ok", "commit_raises", "close_raises"},
     recovery : {"ok", "raises"}]

\* An env says what a call does only for the calls process_file gets to make:
\* every other field is as in FaultFree.
Canonical(env) ==
    LET extracting == env.session = "ok" /\ env.create = "ok"
        classifying == extracting /\ ~env.extract.raises
        choosing == classifying /\ env.extract.text # ""
        finalizing == classifying /\ (choosing => env.classify # "raises")
        recovering == \/ extracting /\ env.extract.raises /\ env.extract_update # "ok"
                      \/ choosing /\ env.classify = "raises"
                      \/ finalizing /\ env.final # "ok"
    IN  /\ env.session = "ok" \/ env.create = "ok"
        /\ extracting \/ env.extract = ExtractedText
        /\ (extracting /\ env.extract.raises) \/ env.extract_update = "ok"
        /\ choosing \/ env.classify = "PROCUREMENT"
        /\ finalizing \/ env.final = "ok"
        /\ recovering \/ env.recovery = "ok"

\* The envs of one file_info.  The faulty file handed in with its meta_data meets
\* every fault.  meta_data is read at lines 63, 139 and 160 only (the channel of
\* the record and of the statistics), so the faulty file handed in without
\* meta_data meets one fault for each way of reaching those lines: none, one the
\* top-level handler catches, and one of the extractor.
Envs(file_info) ==
    UNION {IF file_info.filepath # FaultyPath THEN {FaultFree(magic)}
           ELSE IF "meta_data" \in DOMAIN file_info
           THEN {env \in AllEnvs(magic) : Canonical(env)}
           ELSE {FaultFree(magic),
                 [FaultFree(magic) EXCEPT !.classify = "raises"],
                 [FaultFree(magic) EXCEPT
                     !.extract = [raises |-> TRUE, text |-> "", error |-> "extractor crashed"]]}
           : magic \in MagicOutcomes[file_info.filepath]}

\* One document of a call: the file_info handed in and what its calls do.
Cases ==
    UNION {{[file_info |-> file_info, env |-> env] : env \in Envs(file_info)}
           : file_info \in FileInfos}

----------------------------------------------------------------------------
(* The dispatcher as a state machine: one action per public method.        *)

Init ==
    /\ processing_stats = InitialStats
    /\ documents = <<>>
    /\ call = [op |-> "__init__", files |-> <<>>, results |-> <<>>, raised |-> None,
               before |-> InitialStats, records_before |-> 0, traces |-> <<>>]
    /\ handed = 0
    /\ since_reset = 0

\* dispatcher.process_file(filepath, meta_data)
ProcessFile ==
    /\ handed < MaxDocs
    /\ \E case \in Cases :
         \E o \in {process_file(processing_stats, documents, case.file_info.filepath,
                                Get(case.file_info, "meta_data", EmptyDict), case.env)} :
           /\ processing_stats' = o.stats
           /\ documents' = o.documents
           /\ call' = [op |-> "process_file",
                       files |-> <<[filepath |-> o.filepath, meta_data |-> o.meta_data]>>,
                       results |-> IF o.raised = None THEN <<o.result>> ELSE <<>>,
                       raised |-> o.raised,
                       before |-> processing_stats,
                       records_before |-> Len(documents),
                       traces |-> <<o.trace>>]
    /\ handed' = handed + 1
    /\ since_reset' = since_reset + 1

\* dispatcher.process_batch(files)
ProcessBatch ==
    \E n \in 0..MaxBatch :
      /\ handed + n <= MaxDocs
      /\ \E cases \in [1..n -> Cases] :
           \E b \in {process_batch(processing_stats, documents,
                                   [i \in 1..n |-> cases[i].file_info],
                                   [i \in 1..n |-> cases[i].env])} :
             /\ processing_stats' = b.stats
             /\ documents' = b.documents
             /\ call' = [op |-> "process_batch", files |-> b.files,
                         results |-> b.results, raised |-> b.raised,
                         before |-> processing_stats,
                         records_before |-> Len(documents), traces |-> b.traces]
             /\ since_reset' = since_reset + Len(b.traces)
      /\ handed' = handed + n

\* dispatcher.reset_stats()
ResetStats ==
    /\ processing_stats' = InitialStats
    /\ call' = [op |-> "reset_stats", files |-> <<>>, results |-> <<>>, raised |-> None,
                before |-> processing_stats, records_before |-> Len(documents),
                traces |-> <<>>]
    /\ since_reset' = 0
    /\ UNCHANGED <<documents, handed>>

Next == ProcessFile \/ ProcessBatch \/ ResetStats

Spec == Init /\ [][Next]_vars

----------------------------------------------------------------------------
(* The classifier on its own: classify is a function of its arguments, so  *)
(* each behaviour makes one call.                                          *)

RECURSIVE Repeat(_, _)
Repeat(s, n) == IF n = 0 THEN "" ELSE s \o Repeat(s, n - 1)

\* the number of currency signs of the long text of the model; each comes with
\* 16 characters that match nothing
LongTextSigns == 30

LongText == Repeat("$ zzzzzzzzzzzzzz ", LongTextSigns)

ClassifyTexts ==
    {"",
     "hello world",
     "vendor supplier",
     "purchase order from vendor",
     "Drawing No 12 DWG",
     "budget cost",
     "12.5 crore usd",
     "legalegal terms"}

ClassifyFilenames ==
    {"", "notes.txt", "po_12345.txt", "scan_001.png", "Plan.DWG"}

ClassifyMetadata ==
    {EmptyDict,
     "channel" :> "EMAIL",
     "file_type" :> "TXT",
     "file_type" :> "DWG",
     "file_type" :> "IMAGE"}

ClassifyInputs ==
    [text : ClassifyTexts, filename : ClassifyFilenames, meta_data : ClassifyMetadata]
    \cup [text : {LongText}, filename : {"notes.txt"},
          meta_data : {EmptyDict, "file_type" :> "DWG"}]

InitClassify ==
    /\ processing_stats = InitialStats
    /\ documents = <<>>
    /\ handed = 0
    /\ since_reset = 0
    /\ \E args \in ClassifyInputs :
           call = [op |-> "classify", text |-> args.text, filename |-> args.filename,
                   meta_data |-> args.meta_data, returned |-> FALSE, verdict |-> None]

\* department_classifier.classify(text, filename, meta_data)
Classify ==
    /\ call.op = "classify"
    /\ ~call.returned
    /\ \E v \in {classify(call.text, call.filename, call.meta_data)} :
           call' = [call EXCEPT !.returned = TRUE, !.verdict = v]
    /\ UNCHANGED <<processing_stats, documents, handed, since_reset>>

NextClassify == Classify

SpecClassify == InitClassify /\ [][NextClassify]_vars

----------------------------------------------------------------------------
(* The file type detector on its own: one detect_file_type call per        *)
(* behaviour.                                                              *)

DetectPaths ==
    {"/inbox/report.pdf", "/inbox/Plan.DWG", "/inbox/notes.txt", "/inbox/archive.zip",
     "/inbox/blob.bin", "/inbox/sketch.dxf", "/inbox/README", "/inbox/photo.JPG"}

\* what magic.from_file does: the MIME types of the model, or a fault
DetectMagic ==
    {"application/pdf", "application/zip", "text/plain", "text/x-python", "image/webp",
     "image/x-dwg", "application/x-DXF", "application/octet-stream",
     MagicError, DetectError}

InitDetect ==
    /\ processing_stats = InitialStats
    /\ documents = <<>>
    /\ handed = 0
    /\ since_reset = 0
    /\ \E filepath \in DetectPaths, magic \in DetectMagic :
           call = [op |-> "detect_file_type", filepath |-> filepath, magic |-> magic,
                   done |-> FALSE, raised |-> FALSE,
                   file_type |-> Unbound, mime_type |-> Unbound]

\* file_detector.detect_file_type(filepath)
DetectFileType ==
    /\ call.op = "detect_file_type"
    /\ ~call.done
    /\ \E o \in {detect_file_type(call.filepath, call.magic)} :
           call' = [call EXCEPT !.done = TRUE, !.raised = o.raises,
                                !.file_type = o.file_type, !.mime_type = o.mime_type]
    /\ UNCHANGED <<processing_stats, documents, handed, since_reset>>

NextDetect == DetectFileType

SpecDetect == InitDetect /\ [][NextDetect]_vars

----------------------------------------------------------------------------
(* The extraction strategies on their own: one get_extractor and extract   *)
(* per behaviour.                                                          *)

\* the pages of one PDF of the model
MaxPages == 2

\* page texts of 29, 30 and 31 characters; the second has white space around it
Text29 == "Kochi Metro Rail Limited memo"
Text30 == "  Kochi Metro Rail Limited memo.\n"
Text31 == "Kochi Metro Rail Limited memo 7"

OcrOutcomes ==
    {[raises |-> FALSE, texts |-> <<"scanned page text">>],
     [raises |-> TRUE, texts |-> <<>>]}

TableOutcomes ==
    {[raises |-> FALSE, tables |-> <<>>],
     [raises |-> FALSE, tables |-> <<"item | qty">>],
     [raises |-> TRUE, tables |-> <<>>]}

Pages ==
    [text : {None, "", Text29, Text30, Text31}, ocr : OcrOutcomes,
     tables : {[raises |-> FALSE, tables |-> <<>>]}]
    \cup [text : {Text31, ""}, ocr : {[raises |-> FALSE, texts |-> <<"scanned page text">>]},
          tables : TableOutcomes]
    \cup [text : {PageError}, ocr : {[raises |-> TRUE, texts |-> <<>>]},
          tables : {[raises |-> FALSE, tables |-> <<>>]}]

OpenFails == [open |-> "raises"]

\* what the libraries do, by strategy
Engines ==
    [PDFExtractor |->
        {OpenFails}
        \cup {[open |-> "ok", pages |-> pages] :
                 pages \in UNION {[1..n -> Pages] : n \in 0..MaxPages}},
     ImageExtractor |->
        {OpenFails,
         [open |-> "ok", size |-> <<640, 480>>, ocr |-> [raises |-> TRUE, text |-> ""]],
         [open |-> "ok", size |-> <<640, 480>>,
          ocr |-> [raises |-> FALSE, text |-> "platform notice"]]},
     DOCXExtractor |->
        {OpenFails,
         [open |-> "ok", paragraphs |-> <<"Leave policy", "  ", "Staff circular">>,
          tables |-> <<"name | grade">>]},
     CADExtractor |->
        {OpenFails,
         [open |-> "ok", layers |-> <<"0", "TRACK">>,
          entities |-> <<[dxftype |-> "TEXT", text |-> "PLATFORM 1"],
                         [dxftype |-> "LINE", text |-> Unbound],
                         [dxftype |-> "DIMENSION", text |-> "2400"],
                         [dxftype |-> "DIMENSION", text |-> Unbound]>>]},
     CSVExtractor |->
        {OpenFails,
         [open |-> "ok", decodes |-> 0, rows |-> 0, columns |-> <<>>, preview |-> ""],
         [open |-> "ok", decodes |-> 2, rows |-> 1, columns |-> <<"item", "qty">>,
          preview |-> "bolt 40"]},
     TXTExtractor |->
        {OpenFails,
         [open |-> "ok", decodes |-> 0, text |-> ""],
         [open |-> "ok", decodes |-> 1, text |-> "purchase order\nfrom vendor"]}]

\* the type tags of the two mappings of the detector, and the path of a file of
\* each
PathOfType ==
    [PDF |-> "/inbox/report.pdf", DOCX |-> "/inbox/circular.docx",
     DOC |-> "/inbox/circular.doc", IMAGE |-> "/inbox/scan_001.png",
     DWG |-> "/inbox/Plan.DWG", DXF |-> "/inbox/sketch.dxf", TXT |-> "/inbox/po_12345.txt",
     CSV |-> "/inbox/stock.csv", XLSX |-> "/inbox/stock.xlsx", XLS |-> "/inbox/stock.xls",
     PPTX |-> "/inbox/deck.pptx", ZIP |-> "/inbox/archive.zip", RAR |-> "/inbox/archive.rar",
     UNKNOWN |-> "/inbox/blob.bin"]

ExtractInputs ==
    UNION {{[file_type |-> file_type, filepath |-> PathOfType[file_type], engine |-> engine] :
               engine \in IF file_type \in DOMAIN extractors
                          THEN Engines[extractors[file_type]]
                          ELSE {OpenFails}}
           : file_type \in DOMAIN PathOfType}

InitExtract ==
    /\ processing_stats = InitialStats
    /\ documents = <<>>
    /\ handed = 0
    /\ since_reset = 0
    /\ \E args \in ExtractInputs :
           call = [op |-> "extract", file_type |-> args.file_type,
                   filepath |-> args.filepath, engine |-> args.engine,
                   done |-> FALSE, raised |-> FALSE, result |-> None]

\* ExtractorFactory.get_extractor(file_type).extract(filepath)
Extract ==
    /\ call.op = "extract"
    /\ ~call.done
    /\ \E o \in {get_extractor_and_extract(call.file_type, call.filepath, call.engine)} :
           call' = [call EXCEPT !.done = TRUE, !.raised = o.raises, !.result = o.result]
    /\ UNCHANGED <<processing_stats, documents, handed, since_reset>>

NextExtract == Extract

SpecExtract == InitExtract /\ [][NextExtract]_vars

----------------------------------------------------------------------------
(* process_file with metadata that names a file type of its own: one call   *)
(* per behaviour, on a new dispatcher.                                     *)

\* the file_type key of the caller's metadata: none, or one of these tags
CallerFileTypes == {None, "TXT", "DWG", "IMAGE"}

InitMetadata ==
    /\ processing_stats = InitialStats
    /\ documents = <<>>
    /\ handed = 0
    /\ since_reset = 0
    /\ \E case \in Cases, file_type \in CallerFileTypes :
           call = [op |-> "process_file_with_metadata",
                   filepath |-> case.file_info.filepath,
                   meta_data |-> IF file_type = None
                                 THEN Get(case.file_info, "meta_data", EmptyDict)
                                 ELSE ("file_type" :> file_type)
                                      @@ Get(case.file_info, "meta_data", EmptyDict),
                   env |-> case.env, done |-> FALSE, raised |-> None,
                   results |-> <<>>, classifier_calls |-> <<>>]

\* dispatcher.process_file(filepath, meta_data)
ProcessFileWithMetadata ==
    /\ call.op = "process_file_with_metadata"
    /\ ~call.done
    /\ \E o \in {process_file(processing_stats, documents, call.filepath,
                              call.meta_data, call.env)} :
           /\ processing_stats' = o.stats
           /\ documents' = o.documents
           /\ call' = [call EXCEPT !.done = TRUE, !.raised = o.raised,
                                   !.results = IF o.raised = None THEN <<o.result>> ELSE <<>>,
                                   !.classifier_calls = o.classifier_calls]
    /\ handed' = handed + 1
    /\ since_reset' = since_reset + 1

NextMetadata == ProcessFileWithMetadata

SpecMetadata == InitMetadata /\ [][NextMetadata]_vars

----------------------------------------------------------------------------
(* channels/channel_workers.py: FileWatcherChannelWorker.  on_created runs *)
(* on the observer's thread, process on the thread of the orchestrator;    *)
(* a thread switch can fall between any two statements.                    *)

MaxEvents == 3   \* file system events the observer delivers
MaxPolls == 2    \* calls of process()

\* line 186
valid_extensions ==
    {".pdf", ".docx", ".doc", ".jpg", ".jpeg", ".png", ".tiff", ".dwg", ".dxf", ".txt",
     ".csv", ".xlsx"}

\* is_valid_file, lines 184-188
is_valid_file(filepath) ==
    /\ splitext_ext(Lower(filepath)) \in valid_extensions
    /\ ~StartsWith(basename(filepath), ".")

\* the events of the model: created files and a created directory
WatcherEvents ==
    {[is_directory |-> FALSE, src_path |-> "/scans/a.pdf"],
     [is_directory |-> FALSE, src_path |-> "/scans/b.PNG"],
     [is_directory |-> FALSE, src_path |-> "/scans/.part.pdf"],
     [is_directory |-> FALSE, src_path |-> "/scans/notes.bak"],
     [is_directory |-> TRUE, src_path |-> "/scans/new.txt"]}

\* lines 156-161, and both threads before their first statement.  appended
\* lists, for the properties, the items on_created has appended; returned lists
\* the return values of process().
InitWatcher ==
    /\ processing_stats = InitialStats
    /\ documents = <<>>
    /\ handed = 0
    /\ since_reset = 0
    /\ call = [op |-> "file_watcher", new_files |-> <<>>, processed_files |-> {},
               observer |-> "idle", filepath |-> None, events |-> 0,
               dispatch |-> "idle", current_files |-> <<>>, polls |-> 0,
               appended |-> <<>>, returned |-> <<>>]

\* on_created, lines 165-167: the tests, up to the sleep of line 169
OnCreatedTest ==
    /\ call.op = "file_watcher"
    /\ call.observer = "idle"
    /\ call.events < MaxEvents
    /\ \E event \in WatcherEvents :
          call' = IF /\ ~event.is_directory
                     /\ is_valid_file(event.src_path)
                     /\ event.src_path \notin call.processed_files
                  THEN [call EXCEPT !.events = @ + 1, !.observer = "append",
                                    !.filepath = event.src_path]
                  ELSE [call EXCEPT !.events = @ + 1]
    /\ UNCHANGED <<processing_stats, documents, handed, since_reset>>

\* on_created, lines 171-181: self.new_files.append(...)
OnCreatedAppend ==
    /\ call.op = "file_watcher"
    /\ call.observer = "append"
    /\ call' = [call EXCEPT !.new_files = Append(@, call.filepath),
                            !.appended = Append(@, call.filepath),
                            !.observer = "add"]
    /\ UNCHANGED <<processing_stats, documents, handed, since_reset>>

\* on_created, line 182: self.processed_files.add(filepath)
OnCreatedAdd ==
    /\ call.op = "file_watcher"
    /\ call.observer = "add"
    /\ call' = [call EXCEPT !.processed_files = @ \cup {call.filepath},
                            !.observer = "idle", !.filepath = None]
    /\ UNCHANGED <<processing_stats, documents, handed, since_reset>>

\* process, line 206: current_files = self.new_files.copy()
ProcessCopy ==
    /\ call.op = "file_watcher"
    /\ call.dispatch = "idle"
    /\ call.polls < MaxPolls
    /\ call' = [call EXCEPT !.current_files = call.new_files, !.dispatch = "clear"]
    /\ UNCHANGED <<processing_stats, documents, handed, since_reset>>

\* process, lines 207-208: self.new_files.clear(); return current_files
ProcessClear ==
    /\ call.op = "file_watcher"
    /\ call.dispatch = "clear"
    /\ call' = [call EXCEPT !.new_files = <<>>,
                            !.returned = Append(@, call.current_files),
                            !.current_files = <<>>,
                            !.dispatch = "idle", !.polls = @ + 1]
    /\ UNCHANGED <<processing_stats, documents, handed, since_reset>>

NextWatcher ==
    OnCreatedTest \/ OnCreatedAppend \/ OnCreatedAdd \/ ProcessCopy \/ ProcessClear

SpecWatcher == InitWatcher /\ [][NextWatcher]_vars

----------------------------------------------------------------------------
(* channels/channel_workers.py: EmailChannelWorker                         *)

MaxCycles == 3   \* calls of EmailChannelWorker.process()

\* config['staging_dir'] of the model
staging_dir == "/staging"

\* What client.search returns and, for each uid, what the message holds: the
\* text of its body and its parts, a part with a filename being an attachment.
Inbox ==
    <<[uid |-> 101, body_text |-> "please find the invoice attached",
       mailparts |-> <<[filename |-> None], [filename |-> "invoice.pdf"]>>],
      [uid |-> 102, body_text |-> "",
       mailparts |-> <<[filename |-> "plan.dxf"], [filename |-> "bill.csv"]>>]>>

\* The statement of process() that raises in one call, if any: the connection
\* (lines 70-72, 84), or for the message of a uid its fetch (90-91), the write of
\* its body (103-104), the write of its attachment in part n (122-123), or
\* mark_email_processed (140).
NoFault == [uid |-> 0, at |-> "none", part |-> 0]
EmailFaults ==
    {NoFault, [uid |-> 0, at |-> "connect", part |-> 0]}
    \cup [uid : {101, 102}, at : {"fetch", "mark"}, part : {0}]
    \cup {[uid |-> 101, at |-> "body", part |-> 0],
          [uid |-> 101, at |-> "attachment", part |-> 2],
          [uid |-> 102, at |-> "attachment", part |-> 1],
          [uid |-> 102, at |-> "attachment", part |-> 2]}

\* get_processed_emails, lines 54-59: the lines of the file, stripped
get_processed_emails(lines) == {Strip(lines[k]) : k \in DOMAIN lines}

\* mark_email_processed, lines 61-64
mark_email_processed(lines, uid) == Append(lines, uid \o "\n")

\* lines 100-101 and 119-120
body_path(uid) == staging_dir \o "/email_" \o ToString(uid) \o "_body.txt"
attachment_path(uid, filename) == staging_dir \o "/email_" \o ToString(uid) \o "_" \o filename

\* lines 117-138: the file_infos of the attachments in the parts up to part n
RECURSIVE attachments(_, _, _)
attachments(uid, mailparts, n) ==
    IF n = 0 THEN <<>>
    ELSE attachments(uid, mailparts, n - 1)
         \o (IF mailparts[n].filename # None
             THEN <<[filepath |-> attachment_path(uid, mailparts[n].filename),
                     meta_data |-> [channel |-> "EMAIL", email_uid |-> ToString(uid),
                                    attachment |-> TRUE]]>>
             ELSE <<>>)

\* The state of one process() call: the lines of processed_emails_file, the
\* local processed_files, the message the loop is at, and where control is.
EmailContext(lines, fault) ==
    [lines |-> lines, processed_uids |-> {}, processed_files |-> <<>>, k |-> 1,
     fault |-> fault, at |-> "connect"]

\* lines 70-85: login, search, and the uids read from the file
email_connect(c) ==
    IF c.fault.at = "connect"
    THEN [c EXCEPT !.at = "handler"]
    ELSE [c EXCEPT !.at = "messages", !.processed_uids = get_processed_emails(c.lines)]

\* lines 87-140: one iteration of the loop over the messages
email_message(c) ==
    IF c.k > Len(Inbox) THEN [c EXCEPT !.at = "returned"]
    ELSE LET msg == Inbox[c.k]
             uid_str == ToString(msg.uid)
             mine == c.fault.uid = msg.uid
             body == IF msg.body_text # ""
                     THEN <<[filepath |-> body_path(msg.uid),
                             meta_data |-> [channel |-> "EMAIL", email_uid |-> uid_str,
                                            attachment |-> FALSE]]>>
                     ELSE <<>>
         IN  IF uid_str \in c.processed_uids THEN [c EXCEPT !.k = @ + 1]
             ELSE IF mine /\ c.fault.at = "fetch" THEN [c EXCEPT !.at = "handler"]
             ELSE IF mine /\ c.fault.at = "body" /\ msg.body_text # ""
             THEN [c EXCEPT !.at = "handler"]
             ELSE IF mine /\ c.fault.at = "attachment"
                     /\ c.fault.part \in DOMAIN msg.mailparts
                     /\ msg.mailparts[c.fault.part].filename # None
             THEN [c EXCEPT !.at = "handler",
                            !.processed_files =
                                @ \o body \o attachments(msg.uid, msg.mailparts,
                                                         c.fault.part - 1)]
             ELSE LET filed == [c EXCEPT !.processed_files =
                                    @ \o body \o attachments(msg.uid, msg.mailparts,
                                                             Len(msg.mailparts))]
                  IN  IF mine /\ c.fault.at = "mark"
                      THEN [filed EXCEPT !.at = "handler"]
                      ELSE [filed EXCEPT !.k = @ + 1,
                                         !.lines = mark_email_processed(@, uid_str)]

\* One step of process(): the code control is at.  The handler of lines 142-143
\* prints the fault; line 145 returns what was collected.
email_step(c) ==
    CASE c.at = "connect" -> email_connect(c)
      [] c.at = "messages" -> email_message(c)
      [] c.at = "handler" -> [c EXCEPT !.at = "returned"]

RECURSIVE email_run(_)
email_run(c) == IF c.at = "returned" THEN c ELSE email_run(email_step(c))

\* EmailChannelWorker.process, lines 66-145.  The value is the context the call
\* ends in.
email_process(lines, fault) == email_run(EmailContext(lines, fault))

\* A worker whose processed_emails_file does not exist yet.  returned lists the
\* return values of process().
InitEmail ==
    /\ processing_stats = InitialStats
    /\ documents = <<>>
    /\ handed = 0
    /\ since_reset = 0
    /\ call = [op |-> "email_worker", lines |-> <<>>, returned |-> <<>>, faults |-> <<>>]

\* EmailChannelWorker.process()
EmailProcess ==
    /\ call.op = "email_worker"
    /\ Len(call.returned) < MaxCycles
    /\ \E fault \in EmailFaults :
         \E o \in {email_process(call.lines, fault)} :
           call' = [call EXCEPT !.lines = o.lines,
                                !.returned = Append(@, o.processed_files),
                                !.faults = Append(@, fault)]
    /\ UNCHANGED <<processing_stats, documents, handed, since_reset>>

NextEmail == EmailProcess

SpecEmail == InitEmail /\ [][NextEmail]_vars

----------------------------------------------------------------------------
(* main.py: DocumentIngestionOrchestrator, and ChannelManager of           *)
(* channels/channel_workers.py.  The signal handler runs between any two   *)
(* statements of the main thread and returns to the statement it           *)
(* interrupted.                                                            *)

MaxRuns == 2      \* iterations of the loop of run_continuous
MaxSignals == 1   \* shutdown signals delivered
BatchSize == 2    \* PROCESSING_CONFIG['batch_size'] of the model

\* the files the workers of the model find, with what the calls of process_file
\* do for each: the last one makes detect_file_type raise
Mail == [file_info |-> [filepath |-> FaultyPath, meta_data |-> ("channel" :> "EMAIL")],
         env |-> FaultFree("text/plain")]
Undetectable == [file_info |-> [filepath |-> "/inbox/blob.bin",
                                meta_data |-> ("channel" :> "EMAIL")],
                 env |-> FaultFree(DetectError)]
Upload == [file_info |-> [filepath |-> FaultyPath,
                          meta_data |-> ("channel" :> "MANUAL_UPLOAD")],
           env |-> FaultFree("text/plain")]
Drawing == [file_info |-> [filepath |-> "/inbox/Plan.DWG",
                           meta_data |-> ("channel" :> "MANUAL_UPLOAD")],
            env |-> FaultFree(MagicError)]
Archive == [file_info |-> [filepath |-> "/inbox/archive.zip",
                           meta_data |-> ("channel" :> "MANUAL_UPLOAD")],
            env |-> FaultFree("application/zip")]

\* ChannelManager.workers, in the order __init__ fills it (lines 266-278)
Workers == <<"email", "manual_upload">>

\* what worker.process() does in one cycle: the files it returns, or a fault
WorkerOutcomes ==
    [email |-> {[raises |-> FALSE, files |-> <<>>],
                [raises |-> FALSE, files |-> <<Mail>>],
                [raises |-> FALSE, files |-> <<Mail, Undetectable>>]},
     manual_upload |-> {[raises |-> TRUE, files |-> <<>>],
                        [raises |-> FALSE, files |-> <<Upload>>],
                        [raises |-> FALSE, files |-> <<Archive, Drawing, Upload>>]}]

\* process_all_channels, lines 280-293: the files of the workers that returned,
\* in the order of the workers
RECURSIVE process_all_channels(_, _)
process_all_channels(outcomes, n) ==
    IF n = 0 THEN <<>>
    ELSE process_all_channels(outcomes, n - 1)
         \o (IF outcomes[Workers[n]].raises THEN <<>> ELSE outcomes[Workers[n]].files)

\* __init__, lines 30-45: the orchestrator before run_continuous.  at is the
\* statement the main thread is at.  For the properties: cycles counts the
\* iterations begun, fetched is what process_all_channels returned in this one,
\* dispatched the batches handed to process_batch in it, and signal_at where
\* the main thread was when the first signal came.
NewOrchestrator ==
    [op |-> "run_continuous", running |-> TRUE, at |-> "while", new_files |-> <<>>,
     i |-> 0, cycles |-> 0, fetched |-> <<>>, dispatched |-> <<>>, batch_raised |-> None,
     signals |-> 0, signal_at |-> None, begun_after_signal |-> 0, shutdowns |-> 0]

\* signal_handler with a call of shutdown() of its own
signal_handler_shutting_down(o) ==
    [o EXCEPT !.running = FALSE, !.signals = @ + 1, !.shutdowns = @ + 1,
              !.signal_at = IF o.signals = 0 THEN o.at ELSE @]

\* signal_handler, lines 75-78
signal_handler(o) ==
    [o EXCEPT !.running = FALSE, !.signals = @ + 1,
              !.signal_at = IF o.signals = 0 THEN o.at ELSE @]

\* line 120: while self.running; line 137 when it is false
loop_test(o) ==
    IF o.running
    THEN [o EXCEPT !.at = "channels", !.cycles = @ + 1,
                   !.begun_after_signal = @ + (IF o.signals > 0 THEN 1 ELSE 0),
                   !.fetched = <<>>, !.dispatched = <<>>, !.batch_raised = None]
    ELSE [o EXCEPT !.at = "shutdown"]

\* run_once, lines 86-93 and 110: the files of the channels
collect_files(o, outcomes) ==
    LET new_files == process_all_channels(outcomes, Len(Workers))
    IN  [o EXCEPT !.new_files = new_files, !.fetched = new_files, !.i = 0,
                  !.at = IF new_files = <<>> THEN "sleep" ELSE "batch"]

\* line 95: new_files[i:i + batch_size]
next_batch(o) ==
    SubSeq(o.new_files, o.i + 1,
           IF o.i + BatchSize < Len(o.new_files) THEN o.i + BatchSize ELSE Len(o.new_files))

\* run_once, lines 94-108: one iteration of the loop over the batches, b being
\* what process_batch did.  A fault of process_batch goes to the handler of lines
\* 112-113, which is outside the loop.
batch_done(o, b) ==
    IF b.raised # None
    THEN [o EXCEPT !.dispatched = Append(@, next_batch(o)), !.batch_raised = b.raised,
                   !.at = "sleep"]
    ELSE [o EXCEPT !.dispatched = Append(@, next_batch(o)), !.i = @ + BatchSize,
                   !.at = IF o.i + BatchSize < Len(o.new_files) THEN "batch" ELSE "sleep"]

\* lines 130-135: the wait for the next cycle
sleep(o) == [o EXCEPT !.at = "while"]

\* line 137 and shutdown, lines 140-152
shutdown(o) == [o EXCEPT !.at = "exited", !.shutdowns = @ + 1]

InitOrchestrator ==
    /\ processing_stats = InitialStats
    /\ documents = <<>>
    /\ handed = 0
    /\ since_reset = 0
    /\ call = NewOrchestrator

\* a SIGINT or SIGTERM arrives while run_continuous is running
SignalHandler ==
    /\ call.op = "run_continuous"
    /\ call.at # "exited"
    /\ call.signals < MaxSignals
    /\ call' = signal_handler(call)
    /\ UNCHANGED <<processing_stats, documents, handed, since_reset>>

LoopTest ==
    /\ call.op = "run_continuous"
    /\ call.at = "while"
    /\ call.running => call.cycles < MaxRuns
    /\ call' = loop_test(call)
    /\ UNCHANGED <<processing_stats, documents, handed, since_reset>>

CollectFiles ==
    /\ call.op = "run_continuous"
    /\ call.at = "channels"
    /\ \E outcomes \in [email : WorkerOutcomes.email,
                        manual_upload : WorkerOutcomes.manual_upload] :
          call' = collect_files(call, outcomes)
    /\ UNCHANGED <<processing_stats, documents, handed, since_reset>>

DispatchBatch ==
    /\ call.op = "run_continuous"
    /\ call.at = "batch"
    /\ \E b \in {process_batch(processing_stats, documents,
                               [k \in DOMAIN next_batch(call) |->
                                    next_batch(call)[k].file_info],
                               [k \in DOMAIN next_batch(call) |-> next_batch(call)[k].env])} :
          /\ processing_stats' = b.stats
          /\ documents' = b.documents
          /\ call' = batch_done(call, b)
          /\ since_reset' = since_reset + Len(b.traces)
    /\ handed' = handed + Len(next_batch(call))

Sleep ==
    /\ call.op = "run_continuous"
    /\ call.at = "sleep"
    /\ call' = sleep(call)
    /\ UNCHANGED <<processing_stats, documents, handed, since_reset>>

Shutdown ==
    /\ call.op = "run_continuous"
    /\ call.at = "shutdown"
    /\ call' = shutdown(call)
    /\ UNCHANGED <<processing_stats, documents, handed, since_reset>>

\* the statements of the main thread
MainThread == LoopTest \/ CollectFiles \/ DispatchBatch \/ Sleep \/ Shutdown

NextOrchestrator == SignalHandler \/ MainThread

SpecOrchestrator == InitOrchestrator /\ [][NextOrchestrator]_vars

\* process_batch can be called: the guard of DispatchBatch
DispatchBatchEnabled ==
    /\ call.op = "run_continuous"
    /\ call.at = "batch"

\* The main thread keeps running, every call it makes returning or raising:
\* weak fairness of each of its statements.  For DispatchBatch,
\* ENABLED <<DispatchBatch>>_vars is written as the state predicate it is equal
\* to: process_batch is total and every batch changes call.dispatched.
FairMainThread ==
    /\ WF_vars(LoopTest)
    /\ WF_vars(CollectFiles)
    /\ WF_vars(Sleep)
    /\ WF_vars(Shutdown)
    /\ []<>(~DispatchBatchEnabled) \/ []<><<DispatchBatch>>_vars

SpecOrchestratorFair == SpecOrchestrator /\ FairMainThread

----------------------------------------------------------------------------
(* Properties.  They read the last call: results[i] and traces[i] belong to *)
(* files[i]; a document whose process_file raised has a trace and no result.*)

Has(trace, name) == \E k \in DOMAIN trace : trace[k] = name

\* the type tag step 1 resolved, from the first entry of the result's step log
DetectedType(result) == result.processing_steps[1][2]

\* the channel statistics and the record are keyed by
ChannelOf(file_info) == Get(Get(file_info, "meta_data", EmptyDict), "channel", "UNKNOWN")

\* the documents of the last call a record was inserted for
Created == {i \in DOMAIN call.traces : Has(call.traces[i], "create_commit")}

StatusCount(status) ==
    Cardinality({i \in DOMAIN call.results : call.results[i].status = status})

C2_UnsupportedIsRejected ==
    /\ \A i \in DOMAIN call.results :
          DetectedType(call.results[i]) \notin supported_types =>
             /\ call.results[i].status = "UNSUPPORTED"
             /\ call.results[i].document_id = NoId
             /\ call.traces[i] = <<"detect_file_type">>
    /\ Len(documents) = call.records_before + Cardinality(Created)
    /\ \A i \in Created :
          i \in DOMAIN call.results => DetectedType(call.results[i]) \in supported_types

C2_Witness ==
    /\ call.op = "process_file"
    /\ Len(call.results) = 1
    /\ DetectedType(call.results[1]) = "ZIP"
    /\ call.results[1].status = "UNSUPPORTED"
    /\ Len(documents) = call.records_before

\* C3: a process_file call that returns has incremented exactly one of successful
\* and failed by one, and by_channel, by_type and by_department by one each, at
\* the channel of the metadata (UNKNOWN if absent), the resolved type tag and the
\* final department (UNKNOWN on failure).
C3_StatsOncePerDocument ==
    (call.op = "process_file" /\ call.results # <<>>) =>
        LET r == call.results[1]
            department == IF r.status = "SUCCESS" THEN r.department ELSE "UNKNOWN"
        IN  /\ \/ /\ processing_stats.successful = call.before.successful + 1
                  /\ processing_stats.failed = call.before.failed
               \/ /\ processing_stats.successful = call.before.successful
                  /\ processing_stats.failed = call.before.failed + 1
            /\ processing_stats.by_channel = Incr(call.before.by_channel, ChannelOf(call.files[1]))
            /\ processing_stats.by_type = Incr(call.before.by_type, DetectedType(r))
            /\ processing_stats.by_department = Incr(call.before.by_department, department)

\* C4: total_processed is the number of documents processed since construction
\* or the last reset_stats, whichever entry point processed them.
C4_TotalCountsDocuments == processing_stats.total_processed = since_reset

\* C5: between dispatcher calls total_processed = successful + failed.
C5_TotalIsSuccessfulPlusFailed ==
    processing_stats.total_processed =
        processing_stats.successful + processing_stats.failed

\* C6: process_batch returns normally and has processed every document of its
\* input list, whatever faults the documents meet.
C6_BatchNeverAborts ==
    call.op = "process_batch" =>
        /\ call.raised = None
        /\ Len(call.traces) = Len(call.files)

FaultMessage ==
    ("get_database_session!" :> "database unavailable") @@
    ("create_commit!" :> "insert failed") @@
    ("error_commit!" :> "error update failed") @@
    ("error_close!" :> "session close failed") @@
    ("classify!" :> "classification failed") @@
    ("final_commit!" :> "final commit failed") @@
    ("final_close!" :> "session close failed")

\* C9: a fault of steps 2-5 other than the extractor's gives the result FAILED
\* with the fault's message; the recovery update of the record is attempted
\* exactly when a record was created, and when it faults too the result is still
\* returned FAILED with the first fault's message; every FAILED result is counted
\* once in failed and none in successful.
C9_FaultsYieldFailed ==
    /\ \A i \in DOMAIN call.traces : \A f \in DOMAIN FaultMessage :
          LET trace == call.traces[i]
              recovery == Has(trace, "recovery_update") \/ Has(trace, "recovery_update!")
          IN  Has(trace, f) =>
                  /\ i \in DOMAIN call.results
                  /\ call.results[i].status = "FAILED"
                  /\ call.results[i].error = "Processing failed: " \o FaultMessage[f]
                  /\ recovery <=> Has(trace, "create_commit")
                  /\ recovery <=> call.results[i].document_id # NoId
                  /\ Has(trace, "recovery_update") =>
                        /\ documents[call.results[i].document_id].status = "ERROR"
                        /\ documents[call.results[i].document_id].error_message
                               = FaultMessage[f]
                  /\ trace[Len(trace)] = "update_stats"
    /\ call.op \in {"process_file", "process_batch"} =>
          /\ processing_stats.failed = call.before.failed + StatusCount("FAILED")
          /\ processing_stats.successful = call.before.successful + StatusCount("SUCCESS")

C9_Witness ==
    \E i \in DOMAIN call.results :
        /\ Has(call.traces[i], "final_commit!")
        /\ Has(call.traces[i], "recovery_update!")
        /\ call.results[i].status = "FAILED"
        /\ documents[call.results[i].document_id].status = "PROCESSING"

\* C10: in every state, a record's department is set exactly when its status is
\* PROCESSED, and its extracted_text is set only when its processing got past
\* extraction.
C10_RecordFieldsMatchStatus ==
    \A id \in DOMAIN documents :
        /\ documents[id].department # None <=> documents[id].status = "PROCESSED"
        /\ documents[id].extracted_text # None =>
               documents[id].status \in {"PROCESSED", "ERROR"}

----------------------------------------------------------------------------
(* Properties of the classifier.  They read the classify call of the       *)
(* behaviour once it has returned.                                         *)

Classified == call.op = "classify" /\ call.returned

\* the four signals of one department for the arguments of a call, counted
\* apart from the loops of classify
KeywordOccurrences(dept, text) ==
    SumCounts(matched_keywords(department_keywords[dept], Lower(text), 1))

PatternMatches(dept, text) ==
    IF dept \in DOMAIN department_patterns
    THEN SumCounts(matched_patterns(department_patterns[dept], Lower(text), 1))
    ELSE 0

HintsPresent(dept, filename) ==
    IF dept \in DOMAIN filename_hints
    THEN Cardinality({k \in DOMAIN filename_hints[dept] :
                         Contains(Lower(filename), filename_hints[dept][k])})
    ELSE 0

MetadataBonus(dept, filename, meta_data) ==
    IF dept = "ENGINEERING" /\ Get(meta_data, "file_type", "") \in {"DWG", "DXF"}
    THEN CadBonus
    ELSE IF /\ dept = "OPERATIONS"
            /\ Get(meta_data, "file_type", "") = "IMAGE"
            /\ \E w \in DOMAIN ScanWords : Contains(Lower(filename), ScanWords[w])
    THEN ImageBonus
    ELSE 0

RawScore(dept, text, filename, meta_data) ==
    KeywordWeight * KeywordOccurrences(dept, text)
    + PatternWeight * PatternMatches(dept, text)
    + HintWeight * HintsPresent(dept, filename)
    + MetadataBonus(dept, filename, meta_data)

DepartmentSet == {Departments[d] : d \in DOMAIN Departments}

\* C11: a classify call with an empty text returns the department UNKNOWN with
\* confidence 0 and an empty score map, whatever the filename and the metadata.
C11_EmptyTextIsNoContent ==
    (Classified /\ call.text = "") =>
        /\ call.verdict.department = "UNKNOWN"
        /\ call.verdict.confidence = 0
        /\ call.verdict.scores.keys = <<>>
        /\ DOMAIN call.verdict.scores.val = {}

C11_Witness ==
    /\ Classified
    /\ call.text = ""
    /\ call.filename = "Plan.DWG"
    /\ Get(call.meta_data, "file_type", "") = "DWG"
    /\ call.verdict.department = "UNKNOWN"

\* C12: a classify call with a non-empty text for which no department has a
\* positive raw score returns GENERAL with confidence 0 and an empty score map;
\* and every score of a returned score map is strictly positive.
C12_NoSignalIsGeneral ==
    Classified =>
        /\ (/\ call.text # ""
            /\ \A dept \in DepartmentSet :
                   RawScore(dept, call.text, call.filename, call.meta_data) = 0)
           => /\ call.verdict.department = "GENERAL"
              /\ call.verdict.confidence = 0
              /\ call.verdict.scores.keys = <<>>
              /\ DOMAIN call.verdict.scores.val = {}
        /\ \A dept \in DOMAIN call.verdict.scores.val :
               call.verdict.scores.val[dept] > 0

C12_Witness ==
    /\ Classified
    /\ call.text = "hello world"
    /\ call.filename = "scan_001.png"
    /\ Get(call.meta_data, "file_type", "") = "TXT"
    /\ call.verdict.department = "GENERAL"

\* C13: the confidence of every verdict is between 0 and 1, and the department
\* of a verdict with a non-empty score map is a key of the map that no other
\* key outscores.
C13_ConfidenceAndArgMax ==
    Classified =>
        /\ call.verdict.confidence >= 0
        /\ call.verdict.confidence <= ConfidenceOne
        /\ DOMAIN call.verdict.scores.val # {} =>
              /\ call.verdict.department \in DOMAIN call.verdict.scores.val
              /\ \A dept \in DOMAIN call.verdict.scores.val :
                     call.verdict.scores.val[dept]
                         <= call.verdict.scores.val[call.verdict.department]

C13_Witness ==
    /\ Classified
    /\ call.text = LongText
    /\ call.verdict.department = "FINANCE"
    /\ call.verdict.scores.val["FINANCE"] * Len(call.text) > ConfidenceOne
    /\ call.verdict.confidence = ConfidenceOne

\* C14: among the departments that share the highest raw score, the verdict
\* names the one that comes first in the enumeration order ENGINEERING,
\* PROCUREMENT, HR, FINANCE, SAFETY, OPERATIONS, LEGAL, REGULATORY, whichever
\* signals gave them their scores.
C14_TieGoesToEnumerationOrder ==
    (Classified /\ DOMAIN call.verdict.scores.val # {}) =>
        \E d \in DOMAIN Departments :
            /\ call.verdict.department = Departments[d]
            /\ \A e \in DOMAIN Departments :
                   Departments[e] \in DOMAIN call.verdict.scores.val =>
                      \/ call.verdict.scores.val[Departments[e]]
                             < call.verdict.scores.val[Departments[d]]
                      \/ /\ call.verdict.scores.val[Departments[e]]
                                = call.verdict.scores.val[Departments[d]]
                         /\ d <= e

\* C15: for a non-empty text, the score of every department in the returned
\* map is 0.5 x its keyword occurrences + 0.8 x its pattern matches + 0.3 x its
\* filename hints present + its metadata bonus, and a department is missing
\* from the map exactly when that sum is zero.
C15_RawScoreFormula ==
    (Classified /\ call.text # "") =>
        /\ DOMAIN call.verdict.scores.val \subseteq DepartmentSet
        /\ \A dept \in DepartmentSet :
              /\ Get(call.verdict.scores.val, dept, 0)
                     = RawScore(dept, call.text, call.filename, call.meta_data)
              /\ dept \notin DOMAIN call.verdict.scores.val
                     <=> RawScore(dept, call.text, call.filename, call.meta_data) = 0

C15_Witness ==
    /\ Classified
    /\ call.text = "Drawing No 12 DWG"
    /\ call.filename = "Plan.DWG"
    /\ Get(call.meta_data, "file_type", "") = "DWG"
    /\ KeywordOccurrences("ENGINEERING", call.text) = 2
    /\ PatternMatches("ENGINEERING", call.text) = 2
    /\ HintsPresent("ENGINEERING", call.filename) = 1
    /\ call.verdict.scores.val["ENGINEERING"] = 39

\* C16: every department with a score in the returned map has an entry of the
\* verdict's evidence list that names it.
C16_EveryScoreHasEvidence ==
    Classified =>
        \A dept \in DOMAIN call.verdict.scores.val :
            \E k \in DOMAIN call.verdict.reasoning :
                call.verdict.reasoning[k].department = dept

----------------------------------------------------------------------------
(* Properties of the file type detector.                                   *)

\* the detect_file_type call of the behaviour is over: it returned or raised
Detected == call.op = "detect_file_type" /\ call.done

\* C17: detect_file_type returns a pair for every input.  The tag is the one
\* the media type maps to; failing that, the one the extension maps to; failing
\* that, DWG or DXF on a CAD hint in the media type or the extension, IMAGE on an
\* image/ media type, TXT on a text/ media type; failing all, UNKNOWN.  When
\* binary inspection fails, the pair is the tag of the extension (UNKNOWN if it
\* has none) and the generic media type.
C17_ResolutionOrder ==
    Detected =>
        LET ext == Lower(splitext_ext(call.filepath))
            mime == call.magic
            cad == IF Contains(Lower(mime), "dwg") \/ ext = ".dwg" THEN "DWG"
                   ELSE IF Contains(Lower(mime), "dxf") \/ ext = ".dxf" THEN "DXF"
                   ELSE None
        IN  /\ ~call.raised
            /\ IF call.magic \in {MagicError, DetectError}
               THEN /\ call.file_type = Get(extension_mapping, ext, "UNKNOWN")
                    /\ call.mime_type = "application/octet-stream"
               ELSE /\ call.mime_type = mime
                    /\ mime \in DOMAIN mime_to_type_mapping =>
                          call.file_type = mime_to_type_mapping[mime]
                    /\ (mime \notin DOMAIN mime_to_type_mapping
                        /\ ext \in DOMAIN extension_mapping) =>
                          call.file_type = extension_mapping[ext]
                    /\ (mime \notin DOMAIN mime_to_type_mapping
                        /\ ext \notin DOMAIN extension_mapping) =>
                          call.file_type =
                              IF cad # None THEN cad
                              ELSE IF StartsWith(mime, "image/") THEN "IMAGE"
                              ELSE IF StartsWith(mime, "text/") THEN "TXT"
                              ELSE "UNKNOWN"

\* C27: when the extension of the file maps to a supported tag, the tag
\* detect_file_type returns is supported, whatever media type binary inspection
\* gave.
C27_SupportedExtensionNeverRejected ==
    (Detected /\ ~call.raised /\ call.magic \notin {MagicError, DetectError}) =>
        LET ext == Lower(splitext_ext(call.filepath))
        IN  (ext \in DOMAIN extension_mapping /\ is_supported_type(extension_mapping[ext]))
                => is_supported_type(call.file_type)

----------------------------------------------------------------------------
(* Properties of the extraction strategies.                                *)

\* the get_extractor and extract of the behaviour are over
Extracted == call.op = "extract" /\ call.done

\* C18: for every supported type tag there is a strategy, and its extract
\* returns a text (never None) without raising; whenever a library under it
\* raised, the notes of the outcome hold a failure reason.
C18_StrategiesIsolateFaults ==
    (Extracted /\ call.file_type \in supported_types) =>
        /\ call.file_type \in DOMAIN extractors
        /\ ~call.raised
        /\ call.result.text # None
        /\ call.result.caught # <<>> => "error" \in DOMAIN call.result.meta_data

\* the pages of a PDF the page loop ran over from first to last
PagesRead ==
    /\ Extracted
    /\ call.file_type = "PDF"
    /\ call.engine.open = "ok"
    /\ \A i \in DOMAIN call.engine.pages : call.engine.pages[i].text # PageError

\* C20: a PDF page whose text layer gives at least 30 characters, white space at
\* the ends aside, is taken directly and never sent to OCR; a page that gives
\* less, or nothing, goes to OCR and is never taken directly; and the notes name,
\* for every page that gave a text, the way it was got.
C20_DirectUnlessBelowMinimum ==
    PagesRead =>
        \A i \in DOMAIN call.engine.pages :
            LET page == call.engine.pages[i]
                method == call.result.meta_data.extraction_method
                enough == /\ page.text # None
                          /\ Len(Strip(page.text)) >= MinDirectLength
            IN  /\ enough =>
                      /\ \E k \in DOMAIN method : method[k] = <<i, "direct">>
                      /\ ~\E k \in DOMAIN method : method[k] = <<i, "ocr">>
                /\ ~enough =>
                      /\ ~\E k \in DOMAIN method : method[k] = <<i, "direct">>
                      /\ ~page.ocr.raises =>
                             \E k \in DOMAIN method : method[k] = <<i, "ocr">>

----------------------------------------------------------------------------
(* Properties of the table rows, the sessions and the statistics.          *)

\* C23: the row of every document process_file returns with an id has left
\* PROCESSING: it is PROCESSED when the result is SUCCESS and ERROR otherwise,
\* the recovery update failing included.
C23_RecordLeavesProcessing ==
    \A i \in DOMAIN call.results :
        call.results[i].document_id # NoId =>
            documents[call.results[i].document_id].status
                = IF call.results[i].status = "SUCCESS" THEN "PROCESSED" ELSE "ERROR"

\* the sum of the counts of a dict of the statistics
RECURSIVE SumOver(_, _)
SumOver(counts, keys) ==
    IF keys = {} THEN 0
    ELSE LET key == CHOOSE k \in keys : TRUE
         IN  counts[key] + SumOver(counts, keys \ {key})

\* sum(counts.values())
SumOfCounts(counts) == SumOver(counts, DOMAIN counts)

\* C24: the counts of by_channel, of by_type and of by_department each add up
\* to successful + failed.
C24_BreakdownsAddUp ==
    LET counted == processing_stats.successful + processing_stats.failed
    IN  /\ SumOfCounts(processing_stats.by_channel) = counted
        /\ SumOfCounts(processing_stats.by_type) = counted
        /\ SumOfCounts(processing_stats.by_department) = counted

C24_Witness ==
    /\ processing_stats.successful >= 1
    /\ processing_stats.failed >= 1
    /\ Cardinality(DOMAIN processing_stats.by_channel) = 2
    /\ Cardinality(DOMAIN processing_stats.by_department) = 2
    /\ C24_BreakdownsAddUp

\* the session of step 2 (line 56) was closed: by line 99 or by line 132
Step2SessionClosed(trace) == Has(trace, "error_close") \/ Has(trace, "final_close")

\* C26: in every process_file call that opened the session of step 2, that
\* session was closed before the call ended, whichever path the call took.
C26_SessionsAreClosed ==
    \A i \in DOMAIN call.traces :
        Has(call.traces[i], "get_database_session") => Step2SessionClosed(call.traces[i])

\* page i of the PDF was sent to OCR and OCR raised
OcrFailed(i) ==
    LET page == call.engine.pages[i]
    IN  /\ ~(page.text # None /\ page.text # "" /\ Len(Strip(page.text)) > MinDirectLength)
        /\ page.ocr.raises

\* C21: when OCR fails on a page of a PDF, extract returns normally, the notes
\* of the outcome record the failure, the page gives no text of its own, and
\* every other page is still read.
C21_OcrFailureIsRecorded ==
    PagesRead =>
        \A i \in DOMAIN call.engine.pages :
            OcrFailed(i) =>
                LET method == call.result.meta_data.extraction_method
                IN  /\ ~call.raised
                    /\ "error" \in DOMAIN call.result.meta_data
                    /\ ~\E k \in DOMAIN method : method[k][1] = i
                    /\ \A j \in DOMAIN call.engine.pages :
                          ~OcrFailed(j) => \E k \in DOMAIN method : method[k][1] = j

\* C22: extraction of a DWG file returns normally, with the placeholder for
\* its text instead of drawing text and a failure reason in the notes.
C22_DwgYieldsPlaceholder ==
    (Extracted /\ call.file_type = "DWG") =>
        /\ ~call.raised
        /\ call.result.text = "CAD file detected: " \o basename(call.filepath)
        /\ "error" \in DOMAIN call.result.meta_data

----------------------------------------------------------------------------
(* Properties of the metadata the dispatcher hands to the classifier.      *)

\* C19: in every classify call process_file makes, the file_type of the
\* metadata argument is the type tag that type resolution returned, whatever the
\* caller's metadata holds.
C19_ClassifierSeesResolvedType ==
    (call.op = "process_file_with_metadata" /\ call.done) =>
        \A k \in DOMAIN call.classifier_calls :
            /\ "file_type" \in DOMAIN call.classifier_calls[k].meta_data
            /\ call.results # <<>>
            /\ call.classifier_calls[k].meta_data["file_type"]
                   = DetectedType(call.results[1])

----------------------------------------------------------------------------
(* Properties of the file watcher.                                         *)

\* how many of the lists process() has returned hold the item
TimesReturned(item) ==
    Cardinality({<<n, k>> \in (DOMAIN call.returned) \X (1..MaxEvents) :
                    k \in DOMAIN call.returned[n] /\ call.returned[n][k] = item})

\* C25: no item appended to new_files is lost or handed out twice: it is still
\* in new_files for the next process(), or in the copy a running process() is
\* about to return, or in the return value of exactly one process().
C25_NoDetectedFileIsLost ==
    call.op = "file_watcher" =>
        \A a \in DOMAIN call.appended :
            LET item == call.appended[a]
                waiting == \E k \in DOMAIN call.new_files : call.new_files[k] = item
                copied == \E k \in DOMAIN call.current_files : call.current_files[k] = item
            IN  IF waiting \/ copied
                THEN TimesReturned(item) = 0
                ELSE TimesReturned(item) = 1

----------------------------------------------------------------------------
(* Properties of the email worker.                                         *)

\* the cycles and positions at which process() returned the file
Handouts(filepath) ==
    {<<n, k>> \in (DOMAIN call.returned) \X (1..4) :
        k \in DOMAIN call.returned[n] /\ call.returned[n][k].filepath = filepath}

\* C28: over the cycles of the email worker no file of an email is returned by
\* process() more than once, a cycle a fault interrupted included.
C28_EmailFilesHandedOnce ==
    call.op = "email_worker" =>
        \A n \in DOMAIN call.returned : \A k \in DOMAIN call.returned[n] :
            Cardinality(Handouts(call.returned[n][k].filepath)) = 1

----------------------------------------------------------------------------
(* Properties of the orchestrator.                                         *)

RECURSIVE Flatten(_)
Flatten(batches) ==
    IF batches = <<>> THEN <<>> ELSE Head(batches) \o Flatten(Tail(batches))

\* C29: when a cycle of run_once is over, the batches handed to process_batch
\* are, one after the other, exactly the files the channels returned, none of
\* them longer than the batch size; and a fault of a batch leaves the loop of
\* run_continuous running.
C29_EveryFileIsDispatchedOnce ==
    (call.op = "run_continuous" /\ call.at = "sleep") =>
        /\ Flatten(call.dispatched) = call.fetched
        /\ \A n \in DOMAIN call.dispatched :
              Len(call.dispatched[n]) \in 1..BatchSize
        /\ call.batch_raised # None => call.shutdowns = 0

\* C30: once a shutdown signal has come, the iteration it came in is carried
\* through, no iteration is begun after it, and shutdown() is run, once.
C30_GracefulShutdown ==
    /\ [](call.op = "run_continuous" =>
            /\ call.begun_after_signal = 0
            /\ call.shutdowns <= 1
            /\ call.shutdowns = 1 <=> call.at = "exited"
            /\ (call.at \in {"shutdown", "exited"} /\ call.batch_raised = None) =>
                   Flatten(call.dispatched) = call.fetched)
    /\ (call.op = "run_continuous" /\ call.signals > 0) ~> (call.shutdowns = 1)

C30_Witness ==
    /\ call.op = "run_continuous"
    /\ call.signal_at = "batch"
    /\ call.at = "exited"
    /\ call.shutdowns = 1
    /\ call.begun_after_signal = 0
    /\ Len(call.fetched) = 4
    /\ Len(call.dispatched) = 2
    /\ Flatten(call.dispatched) = call.fetched

====
